---- MODULE Spec2Model ----
(***************************************************************************)
(* Raster-to-vector geometry pipeline of 2svg: mask repair (stencil        *)
(* bridging), majority smoothing, contour tracing, Douglas-Peucker         *)
(* simplification and DXF serialisation.                                   *)
(*                                                                         *)
(* A mask (MaskGrid = boolean[][]) is modelled as the set of its           *)
(* foreground cells <<x, y>>, 0-based, x the column and y the row:         *)
(* mask[y][x] is true iff <<x, y>> \in mask.                               *)
(***************************************************************************)
EXTENDS Integers, Sequences, FiniteSets, TLC

VARIABLES
    w, h,          \* grid dimensions (internalW, internalH)
    mask,          \* the grid the stages mutate in place
    maskIn,        \* the grid as it was handed to the running stage
    settings,      \* the configuration record
    pc,            \* position of the pipeline
    it,            \* loop counter of smoothMask
    contours,      \* what extractAllContours returned
    dxf,           \* what buildDxfFromMask returned
    points,        \* argument of simplifyPolyline
    epsilon,       \* tolerance argument of simplifyPolyline, in tenths
    simplified,    \* simplifyPolyline(points, epsilon)
    resimplified,  \* simplifyPolyline(simplified, epsilon)
    docToMask,     \* internalW / docW, the factor from document units to cells
    repair,        \* what the last call of postProcessMask computed and did
    image,         \* the originalImage prop of PreviewCanvas
    effects,       \* the runs of the mask effect, oldest first
    delivered,     \* the mask last handed to onMaskReady and the preview
    variant,       \* which snapshot of the mask effect runs
    path,          \* what buildBezierPath returned, command by command
    snapshot,      \* which snapshot of buildBezierPath is called
    maxPointsArg,  \* the maxPoints argument of simplifyPoints
    vectorRun,     \* the dependencies of the last run of the vectorisation effect
    vectorTimeout, \* the timer vectorTimeoutRef.current names
    processing,    \* the processing state of PreviewCanvas
    vectorPaths,   \* the vectorPaths state of PreviewCanvas
    changes,       \* how many props and state changes have happened
    simplifiedRecursive,  \* what the recursive simplifyPolyline returned
    reordered,     \* postProcessMask with islands.forEach in another order
    activeErasePath,   \* activeErasePath.current, << >> for null
    eraseTimers,   \* the newPaths of the 10 ms timers not yet fired, oldest first
    completed,     \* the strokes finalizeErase has completed
    handed         \* the list of the last onErasedPathsUpdate call

repairVars == <<docToMask, repair>>

previewVars == <<image, effects, delivered, variant>>

pathVars == <<path, snapshot>>

capVars == <<maxPointsArg>>

vectorVars == <<vectorRun, vectorTimeout, processing, vectorPaths, changes>>

rdpVars == <<simplifiedRecursive>>

orderVars == <<reordered>>

eraseVars == <<activeErasePath, eraseTimers, completed, handed>>

callVars == <<capVars, vectorVars, rdpVars, orderVars, eraseVars>>

vars == <<w, h, mask, maskIn, settings, pc, it, contours, dxf,
          points, epsilon, simplified, resimplified, repairVars, previewVars, pathVars,
          callVars>>

-----------------------------------------------------------------------------
(* Bounds of the model *)

GridW == 2        \* short side of the grids that are traced and exported
GridH == 3        \* long side of those grids
SmoothW == 3      \* width of the grids that are smoothed
SmoothH == 3      \* height of those grids
MaxSmooth == 2    \* largest settings.smooth
MaxVectorSmoothing == 3   \* largest settings.vectorSmoothing
MaxInk == 6       \* most foreground cells of a mask that is traced and exported
MaxLen == 5       \* longest point list given to simplifyPolyline
RepairW == 7      \* width of the grids with one rectangular hole
RepairH == 6      \* height of those grids
StripLen == 20    \* length of the two-cell-wide hole of the strip grid
MaxBridgeWidth == 2   \* largest settings.bridgeWidth
MaxBridgeCount == 2   \* largest settings.bridgeCount
MaxWideBridge == 6    \* largest settings.bridgeWidth of the wide bridges
MaxChanges == 3       \* most changes of the props and the preview mask
MaxStrokes == 3       \* most erase strokes drawn

-----------------------------------------------------------------------------
(* Grids *)

Cells(ww, hh) == (0 .. ww - 1) \X (0 .. hh - 1)

InGrid(x, y, ww, hh) == x >= 0 /\ y >= 0 /\ x < ww /\ y < hh

Dirs4 == <<  <<1, 0>>, <<-1, 0>>, <<0, 1>>, <<0, -1>>  >>

Border(ww, hh) ==
    {c \in Cells(ww, hh) : c[1] = 0 \/ c[2] = 0 \/ c[1] = ww - 1 \/ c[2] = hh - 1}

Interior(ww, hh) == Cells(ww, hh) \ Border(ww, hh)

NoSettings == [stencilMode |-> FALSE, bridgeWidth |-> 0, bridgeCount |-> 0,
               smooth |-> 0, vectorSmoothing |-> 0, orientation |-> "portrait",
               threshold |-> 140, erasedPaths |-> << >>, bezierMode |-> FALSE]

\* no call of postProcessMask yet
NoRepair == [mask |-> {}, threw |-> FALSE, bg |-> {}, islands |-> << >>,
             levels |-> << >>, descents |-> << >>]

NoImage == [loaded |-> FALSE, dark |-> {}]

NoDelivery == [run |-> 0, mask |-> {}, image |-> NoImage, settings |-> NoSettings]

\* the pipeline outside the preview component
NoPreview ==
    /\ image = NoImage /\ effects = << >> /\ delivered = NoDelivery /\ variant = "timer"

\* buildBezierPath not called
NoPath == path = << >> /\ snapshot = ""

\* simplifyPoints not called on its own
NoCap == maxPointsArg = 0

\* the vectorisation effect has not run
NoVectorRun == [previewMask |-> -1, bezierMode |-> FALSE, vectorSmoothing |-> 0]

NoVector ==
    /\ vectorRun = NoVectorRun /\ vectorTimeout = "none" /\ processing = FALSE
    /\ vectorPaths = << >> /\ changes = 0

\* the recursive simplifyPolyline not called
NoRdp == simplifiedRecursive = << >>

\* the islands not bridged in another order
NoOrder == reordered = [order |-> << >>, mask |-> {}, threw |-> FALSE]

\* no stroke drawn
NoErase ==
    /\ activeErasePath = << >> /\ eraseTimers = << >>
    /\ completed = << >> /\ handed = << >>

NoCalls == NoCap /\ NoVector /\ NoRdp /\ NoOrder /\ NoErase


-----------------------------------------------------------------------------
(* Exact arithmetic.  The products of document coordinates do not fit the  *)
(* checker's machine integers, so squared distances are computed on        *)
(* signed numbers held as a sign and little-endian digits in base Radix.   *)
(* The code computes the same quantities in IEEE doubles.                  *)

Radix == 10000

Abs(n) == IF n < 0 THEN 0 - n ELSE n

\* a digit list without its leading zero digits
Trim(a) ==
    LET nz == {i \in 1 .. Len(a) : a[i] /= 0}
    IN  IF nz = {} THEN << >> ELSE SubSeq(a, 1, CHOOSE i \in nz : \A j \in nz : j <= i)

\* the digits of a machine integer n >= 0
Digits(n) == Trim(<<n % Radix, (n \div Radix) % Radix, n \div (Radix * Radix)>>)

Digit(a, i) == IF i <= Len(a) THEN a[i] ELSE 0

\* the digits of the places lo .. hi of a list of place values that need not
\* be digits, with the carry into lo and the carry out of hi: the lower half
\* is settled first and hands its carry to the upper half
RECURSIVE CarryRange(_, _, _, _)
CarryRange(raw, lo, hi, carry) ==
    IF lo = hi
    THEN LET t == raw[lo] + carry
         IN  [digits |-> <<t % Radix>>, carry |-> t \div Radix]
    ELSE LET mid == (lo + hi) \div 2
             low == CarryRange(raw, lo, mid, carry)
             high == CarryRange(raw, mid + 1, hi, low.carry)
         IN  [digits |-> low.digits \o high.digits, carry |-> high.carry]

\* the digit list of the value of a list of place values; two more places
\* take the last carry
Normalize(raw) == Trim(CarryRange(raw \o <<0, 0>>, 1, Len(raw) + 2, 0).digits)

Max(a, b) == IF a > b THEN a ELSE b

Min(a, b) == IF a < b THEN a ELSE b

MagAdd(a, b) == Normalize([i \in 1 .. Max(Len(a), Len(b)) |-> Digit(a, i) + Digit(b, i)])

\* a - b for a >= b
MagSub(a, b) == Normalize([i \in 1 .. Len(a) |-> a[i] - Digit(b, i)])

MagCmp(a, b) ==
    IF Len(a) > Len(b) THEN 1
    ELSE IF Len(a) < Len(b) THEN -1
    ELSE LET diff == {i \in 1 .. Len(a) : a[i] /= b[i]}
             top == CHOOSE i \in diff : \A j \in diff : j <= i
         IN  IF diff = {} THEN 0 ELSE IF a[top] > b[top] THEN 1 ELSE -1

\* the sum of a[i] * b[k + 1 - i] for i in lo .. hi
RECURSIVE DotRange(_, _, _, _, _)
DotRange(a, b, k, lo, hi) ==
    IF lo > hi THEN 0
    ELSE IF lo = hi THEN a[lo] * b[k + 1 - lo]
    ELSE DotRange(a, b, k, lo, (lo + hi) \div 2) + DotRange(a, b, k, ((lo + hi) \div 2) + 1, hi)

\* a * b for a, b /= 0: place k holds the products of the digits whose places add up to it
MagMul(a, b) ==
    Normalize([k \in 1 .. Len(a) + Len(b) - 1 |->
                  DotRange(a, b, k, Max(1, k + 1 - Len(b)), Min(Len(a), k))])

Num(n) == [neg |-> n < 0, mag |-> Digits(Abs(n))]

NumZero == [neg |-> FALSE, mag |-> << >>]

NumMul(a, b) ==
    IF a.mag = << >> \/ b.mag = << >> THEN NumZero
    ELSE [neg |-> a.neg /= b.neg, mag |-> MagMul(a.mag, b.mag)]

NumNeg(a) == [neg |-> a.mag /= << >> /\ ~a.neg, mag |-> a.mag]

NumAdd(a, b) ==
    IF a.neg = b.neg THEN [neg |-> a.neg, mag |-> MagAdd(a.mag, b.mag)]
    ELSE LET c == MagCmp(a.mag, b.mag)
         IN  IF c = 0 THEN NumZero
             ELSE IF c > 0 THEN [neg |-> a.neg, mag |-> MagSub(a.mag, b.mag)]
             ELSE [neg |-> b.neg, mag |-> MagSub(b.mag, a.mag)]

NumSub(a, b) == NumAdd(a, NumNeg(b))

\* a > b
NumGT(a, b) ==
    LET d == NumSub(a, b) IN d.mag /= << >> /\ ~d.neg

NumLE(a, b) == ~NumGT(a, b)

Sign(a) == IF a.mag = << >> THEN 0 ELSE IF a.neg THEN -1 ELSE 1

-----------------------------------------------------------------------------
(* Document size (constants.ts) *)

A3_WIDTH == 842
A3_HEIGHT == 1191

A3_SHORT == 842
A3_LONG == 1191

getA3Dimensions(orientation) ==
    IF orientation = "portrait"
    THEN [width |-> A3_SHORT, height |-> A3_LONG]
    ELSE [width |-> A3_LONG, height |-> A3_SHORT]

(* Document coordinates are rationals.  A point list is a record          *)
(*   [sx |-> [n, d], sy |-> [n, d], pts |-> << <<X, Y>>, ... >>]           *)
(* of integer pairs and two scale factors: the point <<X, Y>> stands for   *)
(* the document point (X * sx.n / sx.d, Y * sy.n / sy.d).                  *)
(* The tracer maps cell (px, py) to ((px+0.5)*sx, (py+0.5)*sy) with        *)
(* sx = A3_WIDTH / w and sy = A3_HEIGHT / h, that is to the pair           *)
(* <<2px+1, 2py+1>> under the scales A3_WIDTH / 2w and A3_HEIGHT / 2h.     *)
(* With a = sx^2 and b = sy^2 the squared length of the integer vector     *)
(* (dx, dy) is dx^2 * a + dy^2 * b.  Over the common denominator           *)
(* (sx.d * sy.d)^2, a and b have the numerators A and B, which the list    *)
(* carries with the denominator K.                                         *)
PointList(sx, sy, pts) ==
    [sx |-> sx, sy |-> sy, pts |-> pts,
     A |-> NumMul(NumMul(Num(sx.n), Num(sx.n)), NumMul(Num(sy.d), Num(sy.d))),
     B |-> NumMul(NumMul(Num(sy.n), Num(sy.n)), NumMul(Num(sx.d), Num(sx.d))),
     K |-> NumMul(NumMul(Num(sx.d), Num(sx.d)), NumMul(Num(sy.d), Num(sy.d)))]

ScaleA(pl) == pl.A
ScaleB(pl) == pl.B
ScaleK(pl) == pl.K

TraceScaleX(ww) == [n |-> A3_WIDTH, d |-> 2 * ww]
TraceScaleY(hh) == [n |-> A3_HEIGHT, d |-> 2 * hh]

CellToDoc(c) == << 2 * c[1] + 1, 2 * c[2] + 1 >>

-----------------------------------------------------------------------------
(* extractAllContours: labelling pass *)

Raster(c, ww) == c[2] * ww + c[1]

FirstInRaster(S, ww) == CHOOSE c \in S : \A d \in S : Raster(c, ww) <= Raster(d, ww)

Neigh4(c) == {<<c[1] + 1, c[2]>>, <<c[1] - 1, c[2]>>, <<c[1], c[2] + 1>>, <<c[1], c[2] - 1>>}

\* breadth-first flood over the cells of `allowed`, 4-connectivity
RECURSIVE Flood4(_, _, _)
Flood4(allowed, reached, frontier) ==
    IF frontier = {} THEN reached
    ELSE LET nxt == {n \in UNION {Neigh4(c) : c \in frontier} :
                        n \in allowed /\ n \notin reached}
         IN  Flood4(allowed, reached \cup nxt, nxt)

\* the components in the order the raster scan meets them: component k has
\* label k and startPoints[k] is its first cell in raster order
RECURSIVE LabelComponents(_, _)
LabelComponents(unvisited, ww) ==
    IF unvisited = {} THEN << >>
    ELSE LET s == FirstInRaster(unvisited, ww)
             comp == Flood4(unvisited, {s}, {s})
         IN  <<[start |-> s, cells |-> comp]>> \o LabelComponents(unvisited \ comp, ww)

LabelsOf(comps, ww, hh) ==
    [c \in Cells(ww, hh) |->
        IF \E k \in 1 .. Len(comps) : c \in comps[k].cells
        THEN CHOOSE k \in 1 .. Len(comps) : c \in comps[k].cells
        ELSE 0]

-----------------------------------------------------------------------------
(* traceContourFromLabel *)

\* Dirs8 turning the other way round
Dirs8Mirrored == <<  <<1, 0>>, <<1, -1>>, <<0, -1>>, <<-1, -1>>,
                     <<-1, 0>>, <<-1, 1>>, <<0, 1>>, <<1, 1>>  >>

Dirs8 == <<  <<1, 0>>, <<1, 1>>, <<0, 1>>, <<-1, 1>>,
             <<-1, 0>>, <<-1, -1>>, <<0, -1>>, <<1, -1>>  >>

\* the 0-based direction index the inner for-loop stops at, or -1
NextDir(labels, ww, hh, targetLabel, cx, cy, dir) ==
    LET hit(i) == LET nd == (dir + 7 + i) % 8
                      nx == cx + Dirs8[nd + 1][1]
                      ny == cy + Dirs8[nd + 1][2]
                  IN  InGrid(nx, ny, ww, hh) /\ labels[<<nx, ny>>] = targetLabel
    IN  IF \E i \in 0 .. 7 : hit(i)
        THEN (dir + 7 + (CHOOSE i \in 0 .. 7 : hit(i) /\ \A j \in 0 .. i - 1 : ~hit(j))) % 8
        ELSE -1

\* one turn of the while (true) loop; `exit` is "" while the loop runs and
\* names the break that ended it afterwards
TraceStep(labels, ww, hh, targetLabel, startX, startY, s) ==
    IF s.exit /= "" THEN s
    ELSE LET pushed == Append(s.cells, <<s.cx, s.cy>>)
             nd == NextDir(labels, ww, hh, targetLabel, s.cx, s.cy, s.dir)
         IN  IF nd = -1 THEN [s EXCEPT !.cells = pushed, !.exit = "isolated"]
             ELSE LET nx == s.cx + Dirs8[nd + 1][1]
                      ny == s.cy + Dirs8[nd + 1][2]
                      moved == [s EXCEPT !.cx = nx, !.cy = ny, !.dir = nd,
                                         !.cells = pushed, !.safety = s.safety - 1]
                  IN  IF s.safety - 1 <= 0 THEN [moved EXCEPT !.exit = "safety"]
                      ELSE IF nx = startX /\ ny = startY /\ Len(pushed) > 1
                           THEN [moved EXCEPT !.exit = "closed"]
                           ELSE moved

\* n turns of the loop; nothing happens once a break has ended it
RECURSIVE TraceLoop(_, _, _, _, _, _, _, _)
TraceLoop(labels, ww, hh, targetLabel, startX, startY, s, n) ==
    IF n <= 0 THEN s
    ELSE IF n = 1 THEN TraceStep(labels, ww, hh, targetLabel, startX, startY, s)
    ELSE LET half == TraceLoop(labels, ww, hh, targetLabel, startX, startY, s, n \div 2)
         IN  IF half.exit /= "" THEN half
             ELSE TraceLoop(labels, ww, hh, targetLabel, startX, startY, half, n - (n \div 2))

\* traceContourFromLabel with twice the safety count
traceContourFromLabelLongSafety(labels, ww, hh, targetLabel, startX, startY) ==
    LET t == TraceLoop(labels, ww, hh, targetLabel, startX, startY,
                       [cx |-> startX, cy |-> startY, dir |-> 0, cells |-> << >>,
                        safety |-> ww * hh * 8, exit |-> ""],
                       ww * hh * 8)
    IN  [label |-> targetLabel,
         exit |-> t.exit,
         cells |-> t.cells,
         pts |-> PointList(TraceScaleX(ww), TraceScaleY(hh),
                           [i \in 1 .. Len(t.cells) |-> CellToDoc(t.cells[i])])]

\* the loop ends within its safety count of w * h * 4 turns
traceContourFromLabel(labels, ww, hh, targetLabel, startX, startY) ==
    LET t == TraceLoop(labels, ww, hh, targetLabel, startX, startY,
                       [cx |-> startX, cy |-> startY, dir |-> 0, cells |-> << >>,
                        safety |-> ww * hh * 4, exit |-> ""],
                       ww * hh * 4)
    IN  [label |-> targetLabel,
         exit |-> t.exit,
         cells |-> t.cells,
         pts |-> PointList(TraceScaleX(ww), TraceScaleY(hh),
                           [i \in 1 .. Len(t.cells) |-> CellToDoc(t.cells[i])])]

\* one trace per label, in label order
TraceAll(m, ww, hh) ==
    LET comps == LabelComponents(m, ww)
        labels == LabelsOf(comps, ww, hh)
    IN  [k \in 1 .. Len(comps) |->
            traceContourFromLabel(labels, ww, hh, k, comps[k].start[1], comps[k].start[2])]

\* the traces extractAllContours keeps
KeptTraces(m, ww, hh) ==
    SelectSeq(TraceAll(m, ww, hh), LAMBDA t : Len(t.pts.pts) >= 3)

extractAllContours(m, ww, hh) ==
    LET kept == KeptTraces(m, ww, hh)
    IN  [k \in 1 .. Len(kept) |-> kept[k].pts]

-----------------------------------------------------------------------------
(* Signs of linear and quadratic forms in a and b *)

\* the value c1 * A + c2 * B
LinValue(c1, c2, A, B) == NumAdd(NumMul(Num(c1), A), NumMul(Num(c2), B))

\* the sign of c1 * a + c2 * b
LinSign(c1, c2, A, B) ==
    IF c1 >= 0 /\ c2 >= 0 THEN (IF c1 = 0 /\ c2 = 0 THEN 0 ELSE 1)
    ELSE IF c1 <= 0 /\ c2 <= 0 THEN -1
    ELSE Sign(LinValue(c1, c2, A, B))

\* the sign of c1 * a^2 + c2 * a * b + c3 * b^2
QuadSign(c1, c2, c3, A, B) ==
    IF c1 >= 0 /\ c2 >= 0 /\ c3 >= 0 THEN (IF c1 = 0 /\ c2 = 0 /\ c3 = 0 THEN 0 ELSE 1)
    ELSE IF c1 <= 0 /\ c2 <= 0 /\ c3 <= 0 THEN -1
    ELSE Sign(NumAdd(NumMul(Num(c1), NumMul(A, A)),
                     NumAdd(NumMul(Num(c2), NumMul(A, B)),
                            NumMul(Num(c3), NumMul(B, B)))))

-----------------------------------------------------------------------------
(* perpendicularDistance(p, v, w), squared.                                *)
(*   l2 = |w - v|^2 = e1 * a + e2 * b                                      *)
(*   t  = ((p - v) . (w - v)) / l2, clamped to [0, 1]                      *)
(*   the distance is |p - v| when l2 = 0 or t <= 0, |p - w| when t >= 1,   *)
(*   and |cross(p - v, w - v)| / sqrt(l2) in between.                      *)
(* The result is [lin |-> TRUE, c1, c2] for the squared distance           *)
(* c1 * a + c2 * b, or [lin |-> FALSE, cr] for cr^2 * a * b / l2.          *)

ZeroDistance == [lin |-> TRUE, c1 |-> 0, c2 |-> 0, cr |-> 0]

perpendicularDistance(p, v, ww, A, B) ==
    LET dx == ww[1] - v[1]
        dy == ww[2] - v[2]
        qx == p[1] - v[1]
        qy == p[2] - v[2]
        toV == [lin |-> TRUE, c1 |-> qx * qx, c2 |-> qy * qy, cr |-> 0]
        toW == [lin |-> TRUE, c1 |-> (p[1] - ww[1]) * (p[1] - ww[1]),
                              c2 |-> (p[2] - ww[2]) * (p[2] - ww[2]), cr |-> 0]
    IN  IF dx = 0 /\ dy = 0 THEN toV                                           \* l2 === 0
        ELSE IF LinSign(qx * dx, qy * dy, A, B) <= 0 THEN toV                  \* t <= 0
        ELSE IF LinSign(qx * dx - dx * dx, qy * dy - dy * dy, A, B) >= 0 THEN toW   \* t >= 1
        ELSE [lin |-> FALSE, c1 |-> 0, c2 |-> 0, cr |-> qx * dy - qy * dx]

\* d > m for two distances from the same segment v-w, l2 = e1 * a + e2 * b
DistanceGT(d, m, e1, e2, A, B) ==
    IF d.lin /\ m.lin THEN LinSign(d.c1 - m.c1, d.c2 - m.c2, A, B) > 0
    ELSE IF ~d.lin /\ ~m.lin THEN Abs(d.cr) > Abs(m.cr)
    ELSE IF m.lin
    THEN QuadSign(0 - m.c1 * e1, d.cr * d.cr - m.c1 * e2 - m.c2 * e1, 0 - m.c2 * e2, A, B) > 0
    ELSE QuadSign(d.c1 * e1, d.c1 * e2 + d.c2 * e1 - m.cr * m.cr, d.c2 * e2, A, B) > 0

\* d > epsilon, epsilon the rational eps.n / eps.d >= 0 in document units
ExceedsEpsilon(d, e1, e2, eps, A, B, K) ==
    LET en2K == NumMul(NumMul(Num(eps.n), Num(eps.n)), K)
        ed2 == NumMul(Num(eps.d), Num(eps.d))
    IN  IF d.lin
        THEN IF d.c1 = 0 /\ d.c2 = 0 THEN FALSE
             ELSE NumGT(NumMul(LinValue(d.c1, d.c2, A, B), ed2), en2K)
        ELSE IF d.cr = 0 THEN FALSE
             ELSE NumGT(NumMul(NumMul(Num(d.cr * d.cr), NumMul(A, B)), ed2),
                        NumMul(en2K, LinValue(e1, e2, A, B)))

-----------------------------------------------------------------------------
(* simplifyPolyline, the iterative Ramer-Douglas-Peucker *)

\* one turn of the for-loop over i: a strictly larger distance takes over
FarthestStep(pts, start, end, A, B, acc, i) ==
    LET d == perpendicularDistance(pts[i], pts[start], pts[end], A, B)
        e1 == (pts[end][1] - pts[start][1]) * (pts[end][1] - pts[start][1])
        e2 == (pts[end][2] - pts[start][2]) * (pts[end][2] - pts[start][2])
    IN  IF DistanceGT(d, acc.dmax, e1, e2, A, B) THEN [index |-> i, dmax |-> d] ELSE acc

\* the turns i = lo .. hi - 1 of the for-loop in order: the turns below mid
\* come first and leave an index below mid
RECURSIVE FarthestFrom(_, _, _, _, _, _, _, _)
FarthestFrom(pts, start, end, A, B, acc, lo, hi) ==
    IF lo >= hi THEN acc
    ELSE IF hi = lo + 1 THEN FarthestStep(pts, start, end, A, B, acc, lo)
    ELSE LET mid == (lo + hi) \div 2
             left == FarthestFrom(pts, start, end, A, B, acc, lo, mid)
         IN  IF left.index < mid
             THEN FarthestFrom(pts, start, end, A, B, left, mid, hi)
             ELSE left

\* RdpStep with the second pushed pair starting one index late
RdpStepLateSplit(pts, eps, A, B, K, s) ==
    IF s.stack = << >> THEN s
    ELSE LET top == s.stack[Len(s.stack)]
             rest == SubSeq(s.stack, 1, Len(s.stack) - 1)
             far == FarthestFrom(pts, top[1], top[2], A, B,
                                 [index |-> 0, dmax |-> ZeroDistance], top[1] + 1, top[2])
             e1 == (pts[top[2]][1] - pts[top[1]][1]) * (pts[top[2]][1] - pts[top[1]][1])
             e2 == (pts[top[2]][2] - pts[top[1]][2]) * (pts[top[2]][2] - pts[top[1]][2])
         IN  IF ExceedsEpsilon(far.dmax, e1, e2, eps, A, B, K)
             THEN [stack |-> rest \o << <<top[1], far.index>>, <<far.index + 1, top[2]>> >>,
                   keep |-> s.keep \cup {far.index}]
             ELSE [stack |-> rest, keep |-> s.keep]

\* one turn of the while-loop over the stack of [start, end] pairs
\* (1-based indices)
RdpStep(pts, eps, A, B, K, s) ==
    IF s.stack = << >> THEN s
    ELSE LET top == s.stack[Len(s.stack)]
             rest == SubSeq(s.stack, 1, Len(s.stack) - 1)
             far == FarthestFrom(pts, top[1], top[2], A, B,
                                 [index |-> 0, dmax |-> ZeroDistance], top[1] + 1, top[2])
             e1 == (pts[top[2]][1] - pts[top[1]][1]) * (pts[top[2]][1] - pts[top[1]][1])
             e2 == (pts[top[2]][2] - pts[top[1]][2]) * (pts[top[2]][2] - pts[top[1]][2])
         IN  IF ExceedsEpsilon(far.dmax, e1, e2, eps, A, B, K)
             THEN [stack |-> rest \o << <<top[1], far.index>>, <<far.index, top[2]>> >>,
                   keep |-> s.keep \cup {far.index}]
             ELSE [stack |-> rest, keep |-> s.keep]

\* n turns of the while-loop; it has ended once the stack is empty
RECURSIVE RdpLoop(_, _, _, _, _, _, _)
RdpLoop(pts, eps, A, B, K, s, n) ==
    IF n <= 0 THEN s
    ELSE IF n = 1 THEN RdpStep(pts, eps, A, B, K, s)
    ELSE LET half == RdpLoop(pts, eps, A, B, K, s, n \div 2)
         IN  IF half.stack = << >> THEN half
             ELSE RdpLoop(pts, eps, A, B, K, half, n - (n \div 2))

\* the elements of a set of indices in ascending order
SortedIndices(S) ==
    [k \in 1 .. Cardinality(S) |-> CHOOSE i \in S : Cardinality({j \in S : j < i}) = k - 1]

\* KeptIndices without the last index in the initial set
KeptIndicesNoLast(pl, eps) ==
    IF Len(pl.pts) < 3 THEN [i \in 1 .. Len(pl.pts) |-> i]
    ELSE SortedIndices(RdpLoop(pl.pts, eps, ScaleA(pl), ScaleB(pl), ScaleK(pl),
                               [stack |-> << <<1, Len(pl.pts)>> >>, keep |-> {1}],
                               2 * Len(pl.pts)).keep)

\* the indices simplifyPolyline keeps, ascending.  Every turn that pushes
\* keeps a new index, so the stack is empty within 2 * length turns.
KeptIndices(pl, eps) ==
    IF Len(pl.pts) < 3 THEN [i \in 1 .. Len(pl.pts) |-> i]
    ELSE SortedIndices(RdpLoop(pl.pts, eps, ScaleA(pl), ScaleB(pl), ScaleK(pl),
                               [stack |-> << <<1, Len(pl.pts)>> >>, keep |-> {1, Len(pl.pts)}],
                               2 * Len(pl.pts)).keep)

simplifyPolyline(pl, eps) ==
    LET idx == KeptIndices(pl, eps)
    IN  PointList(pl.sx, pl.sy, [k \in 1 .. Len(idx) |-> pl.pts[idx[k]]])

-----------------------------------------------------------------------------
(* simplifyPolyline, the recursive Ramer-Douglas-Peucker *)

\* JoinHalves that keeps the last point of res1
JoinHalvesWhole(res1, res2) == res1 \o res2

\* res1.slice(0, res1.length - 1).concat(res2)
JoinHalves(res1, res2) == SubSeq(res1, 1, Len(res1) - 1) \o res2

\* the recursion on the slice pts (1-based indices)
RECURSIVE RdpRecursive(_, _, _, _, _)
RdpRecursive(pts, eps, A, B, K) ==
    IF Len(pts) < 3 THEN pts
    ELSE LET end == Len(pts)
             far == FarthestFrom(pts, 1, end, A, B,
                                 [index |-> 0, dmax |-> ZeroDistance], 2, end)
             e1 == (pts[end][1] - pts[1][1]) * (pts[end][1] - pts[1][1])
             e2 == (pts[end][2] - pts[1][2]) * (pts[end][2] - pts[1][2])
         IN  IF ExceedsEpsilon(far.dmax, e1, e2, eps, A, B, K)
             THEN JoinHalves(RdpRecursive(SubSeq(pts, 1, far.index), eps, A, B, K),
                             RdpRecursive(SubSeq(pts, far.index, end), eps, A, B, K))
             ELSE <<pts[1], pts[end]>>

simplifyPolylineRecursive(pl, eps) ==
    PointList(pl.sx, pl.sy, RdpRecursive(pl.pts, eps, ScaleA(pl), ScaleB(pl), ScaleK(pl)))

-----------------------------------------------------------------------------
(* smoothContour: Chaikin corner cutting.  One pass replaces the edge      *)
(* p0-p1 by 0.75*p0 + 0.25*p1 and 0.25*p0 + 0.75*p1: the scales are       *)
(* divided by 4 and the integer pairs are 3*p0 + p1 and p0 + 3*p1.         *)

ChaikinPass(pl) ==
    LET L == Len(pl.pts)
        P0(i) == pl.pts[i]
        P1(i) == pl.pts[(i % L) + 1]
    IN  PointList([n |-> pl.sx.n, d |-> 4 * pl.sx.d], [n |-> pl.sy.n, d |-> 4 * pl.sy.d],
                  [k \in 1 .. 2 * L |->
                    LET i == (k + 1) \div 2
                    IN  IF k % 2 = 1
                        THEN <<3 * P0(i)[1] + P1(i)[1], 3 * P0(i)[2] + P1(i)[2]>>
                        ELSE <<P0(i)[1] + 3 * P1(i)[1], P0(i)[2] + 3 * P1(i)[2]>>])

RECURSIVE ChaikinLoop(_, _)
ChaikinLoop(pl, iterations) ==
    IF iterations <= 0 THEN pl ELSE ChaikinLoop(ChaikinPass(pl), iterations - 1)

smoothContour(pl, iterations) ==
    IF Len(pl.pts) < 3 \/ iterations <= 0 THEN pl ELSE ChaikinLoop(pl, iterations)

-----------------------------------------------------------------------------
(* simplifyPoints *)

DXF_MAX_POINTS == 8000

simplifyPoints(pl, maxPoints) ==
    IF Len(pl.pts) = 0 THEN PointList(pl.sx, pl.sy, << >>)
    ELSE IF Len(pl.pts) <= maxPoints THEN pl
    ELSE LET step == Max(1, Len(pl.pts) \div maxPoints)
             n == (Len(pl.pts) + step - 1) \div step
         IN  PointList(pl.sx, pl.sy, [k \in 1 .. n |-> pl.pts[(k - 1) * step + 1]])

-----------------------------------------------------------------------------
(* buildBezierPath(points, maxPoints, 0).  The path text is the sequence   *)
(* of its commands, each with the points it names; with vectorSmoothing 0  *)
(* no snapshot cuts corners first, epsilon is 0.4, and the snapshots at    *)
(* lines 78 and 484 have baseAlpha 0, so each control point is the point   *)
(* it starts from.                                                         *)

SHARP_EPSILON == [n |-> 2, d |-> 5]     \* vectorSmoothing === 0 ? 0.4 : ...

\* processed.filter((_, i) => i % step === 0) for more than maxPoints points
CapPoints(pl, maxPoints) ==
    IF Len(pl.pts) <= maxPoints THEN pl
    ELSE LET step == (Len(pl.pts) + maxPoints - 1) \div maxPoints
             n == (Len(pl.pts) + step - 1) \div step
         IN  PointList(pl.sx, pl.sy, [k \in 1 .. n |-> pl.pts[(k - 1) * step + 1]])

\* the loop of cubic segments with every alpha 0: C p1, p2, p2 for each i
CurveCommands(pts) ==
    [i \in 1 .. Len(pts) |->
        [op |-> "C", pts |-> <<pts[i], pts[(i % Len(pts)) + 1], pts[(i % Len(pts)) + 1]>>]]

\* the loop of the snapshot at line 791: L for the points after the first
LineCommands(pts) ==
    [i \in 1 .. Len(pts) - 1 |-> [op |-> "L", pts |-> <<pts[i + 1]>>]]

\* the empty text for fewer than 3 points, before or after simplification
buildBezierPath(pl, maxPoints, version) ==
    IF Len(pl.pts) < 3 THEN << >>
    ELSE LET processed == CapPoints(simplifyPolyline(pl, SHARP_EPSILON), maxPoints).pts
         IN  IF Len(processed) < 3 THEN << >>
             ELSE <<[op |-> "M", pts |-> <<processed[1]>>]>>
                  \o (IF version = "791" THEN LineCommands(processed)
                      ELSE CurveCommands(processed))
                  \o <<[op |-> "Z", pts |-> << >>]>>

-----------------------------------------------------------------------------
(* buildDxfFromMask.  The text is the sequence of its lines; a line is     *)
(* either literal text or a number printed by toFixed(3).                  *)

TextLine(t) == [text |-> t, neg |-> FALSE, whole |-> 0, frac |-> << >>]

\* (n / den).toFixed(3): the nearest multiple of 0.001, halves away from
\* zero, printed as sign, integer part and three fractional digits.  The
\* code rounds the double nearest to n / den, so on an exact half its last
\* digit can be one lower than the digit computed here.
toFixed3(n, den) ==
    LET a == Abs(n)
        q == a \div den
        r == a % den
        t == (2000 * r + den) \div (2 * den)
        whole == IF t = 1000 THEN q + 1 ELSE q
        th == IF t = 1000 THEN 0 ELSE t
    IN  [text |-> "",
         neg |-> n < 0 /\ (whole /= 0 \/ th /= 0),
         whole |-> whole,
         frac |-> <<th \div 100, (th \div 10) % 10, th % 10>>]

DxfHeader ==
    << TextLine("0"), TextLine("SECTION"), TextLine("2"), TextLine("HEADER"),
       TextLine("9"), TextLine("$ACADVER"), TextLine("1"), TextLine("AC1009"),
       TextLine("0"), TextLine("ENDSEC"),
       TextLine("0"), TextLine("SECTION"), TextLine("2"), TextLine("ENTITIES") >>

DxfPolylineHead ==
    << TextLine("0"), TextLine("POLYLINE"), TextLine("8"), TextLine("0"),
       TextLine("62"), TextLine("1"), TextLine("66"), TextLine("1"),
       TextLine("70"), TextLine("1") >>

\* x.toFixed(3) and (A3_HEIGHT - y).toFixed(3)
DxfVertex(p, sx, sy) ==
    << TextLine("0"), TextLine("VERTEX"), TextLine("8"), TextLine("0"),
       TextLine("10"), toFixed3(p[1] * sx.n, sx.d),
       TextLine("20"), toFixed3(A3_HEIGHT * sy.d - p[2] * sy.n, sy.d),
       TextLine("30"), TextLine("0.0") >>

\* DxfSeqEnd with the record left out
DxfSeqEndMissing == << >>

DxfSeqEnd == << TextLine("0"), TextLine("SEQEND") >>

DxfFooter == << TextLine("0"), TextLine("ENDSEC"), TextLine("0"), TextLine("EOF") >>

\* the VERTEX records of one polyline, ten lines each
DxfVertices(pl) ==
    LET recs == [j \in 1 .. Len(pl.pts) |-> DxfVertex(pl.pts[j], pl.sx, pl.sy)]
    IN  [i \in 1 .. 10 * Len(pl.pts) |-> recs[((i - 1) \div 10) + 1][((i - 1) % 10) + 1]]

\* Math.max(settings.vectorSmoothing || 0, 0.5), in tenths
EffectiveSmoothing10(st) == Max(10 * st.vectorSmoothing, 5)

\* the points written for one contour: simplify, Chaikin, cap
DxfPoints(contour, st) ==
    LET vs10 == EffectiveSmoothing10(st)
        eps == [n |-> 50 + 2 * vs10, d |-> 100]            \* 0.5 + vs * 0.2
        up == (vs10 + 19) \div 20                           \* Math.ceil(vs / 2)
        iterations == IF up = 0 THEN 1 ELSE up
        Smoothed(s1) == IF iterations > 0 THEN smoothContour(s1, iterations) ELSE s1
    IN  simplifyPoints(Smoothed(IF vs10 > 0 THEN simplifyPolyline(contour, eps) ELSE contour),
                       DXF_MAX_POINTS)

\* one turn of the loop over the contours per k: a point list of fewer than
\* two points is skipped
RECURSIVE DxfEntities(_, _, _)
DxfEntities(cs, st, k) ==
    IF k > Len(cs) THEN << >>
    ELSE LET Entity(pl) == IF Len(pl.pts) < 2 THEN << >>
                           ELSE DxfPolylineHead \o DxfVertices(pl) \o DxfSeqEnd
         IN  Entity(DxfPoints(cs[k], st)) \o DxfEntities(cs, st, k + 1)

buildDxfFromContours(cs, st) ==
    IF Len(cs) = 0 THEN << >>
    ELSE DxfHeader \o DxfEntities(cs, st, 1) \o DxfFooter

buildDxfFromMask(m, ww, hh, st) == buildDxfFromContours(extractAllContours(m, ww, hh), st)

-----------------------------------------------------------------------------
(* postProcessMask, the variant taking a settings object *)

NOISE_PIXELS == 20     \* islands of fewer pixels are filled
ARC_LENGTH == 20       \* boundary cells per bridge

Range(q) == {q[i] : i \in 1 .. Len(q)}

Step4(c, k) == <<c[1] + Dirs4[k][1], c[2] + Dirs4[k][2]>>

\* the background cells the four border floods reach
BgConnected(m, ww, hh) ==
    LET seeds == Border(ww, hh) \ m
    IN  Flood4(Cells(ww, hh) \ m, seeds, seeds)

\* one turn of the queue loop of an island: pop a cell, push its unvisited
\* background neighbours in the order of Dirs4, note whether it is a boundary
IslandStep(m, bg, ww, hh, s) ==
    IF s.head > Len(s.q) THEN s
    ELSE LET c == s.q[s.head]
             isB == \E k \in 1 .. 4 :
                        \/ ~InGrid(Step4(c, k)[1], Step4(c, k)[2], ww, hh)
                        \/ Step4(c, k) \in m
             pushed == SelectSeq([k \in 1 .. 4 |-> Step4(c, k)],
                                 LAMBDA n : /\ InGrid(n[1], n[2], ww, hh)
                                            /\ n \notin m
                                            /\ n \notin s.visited
                                            /\ n \notin bg)
         IN  [q |-> s.q \o pushed,
              head |-> s.head + 1,
              visited |-> s.visited \cup Range(pushed),
              boundary |-> IF isB THEN Append(s.boundary, c) ELSE s.boundary]

\* n turns of the queue loop; it has ended once head has passed the queue
RECURSIVE IslandLoop(_, _, _, _, _, _)
IslandLoop(m, bg, ww, hh, s, n) ==
    IF n <= 0 THEN s
    ELSE IF n = 1 THEN IslandStep(m, bg, ww, hh, s)
    ELSE LET half == IslandLoop(m, bg, ww, hh, s, n \div 2)
         IN  IF half.head > Len(half.q) THEN half
             ELSE IslandLoop(m, bg, ww, hh, half, n - (n \div 2))

\* the island found from the cell `start`: pixels and boundary in queue order
Island(m, bg, ww, hh, start) ==
    LET s == IslandLoop(m, bg, ww, hh,
                        [q |-> <<start>>, head |-> 1, visited |-> {start}, boundary |-> << >>],
                        ww * hh)
    IN  [pixels |-> s.q, boundary |-> s.boundary]

\* IsNoise that takes an island of NOISE_PIXELS pixels for noise too
IsNoiseUpTo(isl) == Len(isl.pixels) <= NOISE_PIXELS

\* pixels.length < 20
IsNoise(isl) == Len(isl.pixels) < NOISE_PIXELS

\* the raster scan for islands: small ones are filled at once, the others
\* are listed
RECURSIVE ScanIslands(_, _, _, _, _, _)
ScanIslands(m, bg, ww, hh, islandVisited, islands) ==
    LET open == Cells(ww, hh) \ (m \cup bg \cup islandVisited)
    IN  IF open = {} THEN [mask |-> m, islands |-> islands]
        ELSE LET isl == Island(m, bg, ww, hh, FirstInRaster(open, ww))
                 pix == Range(isl.pixels)
             IN  IF IsNoise(isl)
                 THEN ScanIslands(m \cup pix, bg, ww, hh, islandVisited \cup pix, islands)
                 ELSE ScanIslands(m, bg, ww, hh, islandVisited \cup pix, Append(islands, isl))

\* distF as its level sets: levels[k + 1] holds the cells at distance k from
\* bgConnected, by 4-steps through any cell of the grid
RECURSIVE DistLevels(_, _, _, _)
DistLevels(ww, hh, reached, levels) ==
    LET nxt == {n \in UNION {Neigh4(c) : c \in levels[Len(levels)]} :
                    InGrid(n[1], n[2], ww, hh) /\ n \notin reached}
    IN  IF nxt = {} THEN levels
        ELSE DistLevels(ww, hh, reached \cup nxt, Append(levels, nxt))

\* distF[c], -1 where the search did not come
DistF(levels, c) ==
    IF \E k \in 1 .. Len(levels) : c \in levels[k]
    THEN (CHOOSE k \in 1 .. Len(levels) : c \in levels[k]) - 1
    ELSE -1

\* the cells the two dx, dy loops clear around c for a whole bw
Disc(c, bw, ww, hh) ==
    {o \in Cells(ww, hh) :
        /\ Abs(o[1] - c[1]) <= bw /\ Abs(o[2] - c[2]) <= bw
        /\ (o[1] - c[1]) * (o[1] - c[1]) + (o[2] - c[2]) * (o[2] - c[2]) <= bw * bw}

\* bridgeWidth is the number bw.n / bw.d of cells.  dx and dy run over
\* -bw, -bw + 1, ... up to bw; the offsets that pass the bounds test and the
\* radius test, as numerators over bw.d
PaintOffsets(c, bw, ww, hh) ==
    LET turns == 0 .. ((2 * bw.n) \div bw.d)
    IN  {o \in {<<i * bw.d - bw.n, j * bw.d - bw.n>> : i \in turns, j \in turns} :
            /\ c[1] * bw.d + o[1] >= 0 /\ c[2] * bw.d + o[2] >= 0
            /\ c[1] * bw.d + o[1] < ww * bw.d /\ c[2] * bw.d + o[2] < hh * bw.d
            /\ o[1] * o[1] + o[2] * o[2] <= bw.n * bw.n}

\* mask[oy][ox] = false with oy not a whole number: mask[oy] is undefined and
\* the assignment raises a TypeError
PaintThrows(c, bw, ww, hh) ==
    bw.n % bw.d /= 0 /\ PaintOffsets(c, bw, ww, hh) /= {}

\* the cells one turn of the descent clears
Painted(c, bw, ww, hh) ==
    IF bw.n % bw.d = 0 THEN Disc(c, bw.n \div bw.d, ww, hh) ELSE {}

\* DescentStep that also paints where distF is -1
DescentStepUnreached(levels, ww, hh, bw, s) ==
    IF s.done THEN s
    ELSE IF DistF(levels, s.c) = 0 THEN [s EXCEPT !.done = TRUE]
    ELSE IF PaintThrows(s.c, bw, ww, hh)
         THEN [s EXCEPT !.path = Append(s.path, s.c), !.threw = TRUE, !.done = TRUE]
    ELSE [s EXCEPT !.mask = s.mask \ Painted(s.c, bw, ww, hh),
                   !.path = Append(s.path, s.c), !.done = TRUE]

\* one turn of the descent: clear the disc, move to the first 4-neighbour of
\* least distF below the own one, stop where there is none.  `path` lists the
\* cells the turns stood on.
DescentStep(levels, ww, hh, bw, s) ==
    IF s.done THEN s
    ELSE IF DistF(levels, s.c) <= 0 THEN [s EXCEPT !.done = TRUE]
    ELSE IF PaintThrows(s.c, bw, ww, hh)
         THEN [s EXCEPT !.path = Append(s.path, s.c), !.threw = TRUE, !.done = TRUE]
    ELSE LET cleared == s.mask \ Painted(s.c, bw, ww, hh)
             D(k) == DistF(levels, Step4(s.c, k))
             lower == {k \in 1 .. 4 : /\ InGrid(Step4(s.c, k)[1], Step4(s.c, k)[2], ww, hh)
                                      /\ D(k) /= -1
                                      /\ D(k) < DistF(levels, s.c)}
         IN  IF lower = {}
             THEN [s EXCEPT !.mask = cleared, !.path = Append(s.path, s.c), !.done = TRUE]
             ELSE LET k == CHOOSE i \in lower :
                               \A j \in lower : D(i) < D(j) \/ (D(i) = D(j) /\ i <= j)
                  IN  [s EXCEPT !.mask = cleared, !.path = Append(s.path, s.c),
                                !.c = Step4(s.c, k)]

RECURSIVE DescentLoop(_, _, _, _, _, _)
DescentLoop(levels, ww, hh, bw, s, n) ==
    IF n <= 0 THEN s
    ELSE IF n = 1 THEN DescentStep(levels, ww, hh, bw, s)
    ELSE LET half == DescentLoop(levels, ww, hh, bw, s, n \div 2)
         IN  IF half.done THEN half
             ELSE DescentLoop(levels, ww, hh, bw, half, n - (n \div 2))

\* BestPoint that takes the first boundary cell of the arc
BestPointFirst(boundary, levels, lo, hi) == boundary[lo]

\* the first boundary cell of least distF among boundary[lo .. hi]
BestPoint(boundary, levels, lo, hi) ==
    LET D(j) == DistF(levels, boundary[j])
        best == CHOOSE i \in lo .. hi :
                    \A j \in lo .. hi : D(i) < D(j) \/ (D(i) = D(j) /\ i <= j)
    IN  boundary[best]

\* BridgeArcCount without the floor of one bridge
BridgeArcCountNoFloor(boundaryLength, bridgeCount) ==
    Min(bridgeCount, boundaryLength \div ARC_LENGTH)

\* n = Math.max(1, Math.min(bridgeCount, Math.floor(boundary.length / 20)))
BridgeArcCount(boundaryLength, bridgeCount) ==
    Max(1, Min(bridgeCount, boundaryLength \div ARC_LENGTH))

\* the bridges i, i + 1, ... of the island k.  b holds the mask, whether a
\* write has raised, and one entry per descent started.
RECURSIVE BridgeArcs(_, _, _, _, _, _, _, _, _)
BridgeArcs(isl, k, levels, ww, hh, st, b, i, n) ==
    IF i >= n \/ b.threw THEN b
    ELSE LET step == Len(isl.boundary) \div n
         IN  IF step <= 0 THEN BridgeArcs(isl, k, levels, ww, hh, st, b, i + 1, n)
             ELSE LET bestP == BestPoint(isl.boundary, levels, i * step + 1, (i + 1) * step)
                      d == DescentLoop(levels, ww, hh, st.bridgeWidth,
                                       [c |-> bestP, mask |-> b.mask, done |-> FALSE,
                                        threw |-> FALSE, path |-> << >>],
                                       ww * hh)
                  IN  BridgeArcs(isl, k, levels, ww, hh, st,
                                 [mask |-> d.mask, threw |-> d.threw,
                                  descents |-> Append(b.descents,
                                      [island |-> k, arc |-> i, arcs |-> n,
                                       lo |-> i * step + 1, hi |-> (i + 1) * step,
                                       start |-> bestP, path |-> d.path, end |-> d.c,
                                       threw |-> d.threw])],
                                 i + 1, n)

\* BridgeIslands that ends after the first island
BridgeIslandsFirstOnly(islands, levels, ww, hh, st, b, k) ==
    IF k > Len(islands) \/ b.threw THEN b
    ELSE BridgeArcs(islands[k], k, levels, ww, hh, st, b, 0,
                    BridgeArcCount(Len(islands[k].boundary), st.bridgeCount))

\* islands.forEach
RECURSIVE BridgeIslands(_, _, _, _, _, _, _)
BridgeIslands(islands, levels, ww, hh, st, b, k) ==
    IF k > Len(islands) \/ b.threw THEN b
    ELSE BridgeIslands(islands, levels, ww, hh, st,
                       BridgeArcs(islands[k], k, levels, ww, hh, st, b, 0,
                                  BridgeArcCount(Len(islands[k].boundary), st.bridgeCount)),
                       k + 1)

\* one call of postProcessMask: the mask it leaves, whether it raised, and
\* what it computed on the way (the islands it listed, distF, its descents)
Repair(m, ww, hh, st) ==
    LET bg == BgConnected(m, ww, hh)
        none == [mask |-> m, threw |-> FALSE, bg |-> bg, islands |-> << >>,
                 levels |-> << >>, descents |-> << >>]
    IN  IF ~st.stencilMode THEN none
        ELSE LET scan == ScanIslands(m, bg, ww, hh, {}, << >>)
             IN  IF Len(scan.islands) = 0 \/ st.bridgeWidth.n <= 0
                 THEN [none EXCEPT !.mask = scan.mask, !.islands = scan.islands]
                 ELSE LET levels == DistLevels(ww, hh, bg, <<bg>>)
                          b == BridgeIslands(scan.islands, levels, ww, hh, st,
                                   [mask |-> scan.mask, threw |-> FALSE, descents |-> << >>], 1)
                      IN  [mask |-> b.mask, threw |-> b.threw, bg |-> bg,
                           islands |-> scan.islands, levels |-> levels,
                           descents |-> b.descents]

postProcessMask(m, ww, hh, st) == Repair(m, ww, hh, st).mask

\* the orders in which n islands can be visited
Orders(n) == {o \in [1 .. n -> 1 .. n] : \A i, j \in 1 .. n : o[i] = o[j] => i = j}

\* postProcessMask with islands.forEach visiting islands[order[1]],
\* islands[order[2]], ...
RepairInOrder(m, ww, hh, st, order) ==
    LET bg == BgConnected(m, ww, hh)
        scan == ScanIslands(m, bg, ww, hh, {}, << >>)
    IN  IF ~st.stencilMode THEN [order |-> order, mask |-> m, threw |-> FALSE]
        ELSE IF Len(scan.islands) = 0 \/ st.bridgeWidth.n <= 0
        THEN [order |-> order, mask |-> scan.mask, threw |-> FALSE]
        ELSE LET levels == DistLevels(ww, hh, bg, <<bg>>)
                 b == BridgeIslands([k \in 1 .. Len(order) |-> scan.islands[order[k]]],
                                    levels, ww, hh, st,
                                    [mask |-> scan.mask, threw |-> FALSE, descents |-> << >>], 1)
             IN  [order |-> order, mask |-> b.mask, threw |-> b.threw]

\* the mask effect's call on the drawn mask
\* settings.bridgeWidth * docToMask
ScaledWidth(bridgeWidth, factor) == [n |-> bridgeWidth * factor.n, d |-> factor.d]

\* an erase stroke in mask coordinates: pt.x * docToMask, pt.y * docToMask and
\* size * docToMask, as numerators over the denominator d of the factor
ScaledPath(p, factor) ==
    [points |-> [i \in DOMAIN p.points |->
                    <<p.points[i][1] * factor.n, p.points[i][2] * factor.n>>],
     size |-> p.size * factor.n,
     d |-> factor.d]

\* the settings object the mask effect builds for the call
CallSettings(st, factor) ==
    [stencilMode |-> st.stencilMode,
     bridgeWidth |-> ScaledWidth(st.bridgeWidth, factor),
     bridgeCount |-> st.bridgeCount,
     erasedPaths |-> [i \in DOMAIN st.erasedPaths |-> ScaledPath(st.erasedPaths[i], factor)]]

\* the centre (x + 1/2, y + 1/2) of cell c lies within the radius of the
\* segment from a to b of the stroke p; all lengths are taken times 2 * p.d
CentreNear(c, a, b, p) ==
    LET cx == (2 * c[1] + 1) * p.d
        cy == (2 * c[2] + 1) * p.d
        abx == 2 * (b[1] - a[1])
        aby == 2 * (b[2] - a[2])
        acx == cx - 2 * a[1]
        acy == cy - 2 * a[2]
        bcx == cx - 2 * b[1]
        bcy == cy - 2 * b[2]
        t == acx * abx + acy * aby
        len2 == abx * abx + aby * aby
        r2 == 4 * p.size * p.size
        cross == abx * acy - aby * acx
    IN  IF len2 = 0 \/ t <= 0 THEN acx * acx + acy * acy <= r2
        ELSE IF t >= len2 THEN bcx * bcx + bcy * bcy <= r2
        ELSE cross * cross <= r2 * len2

\* the cells an erase stroke covers; a stroke of one point covers a disc
StrokeCells(p, ww, hh) ==
    {c \in Cells(ww, hh) :
        \E i \in DOMAIN p.points :
            CentreNear(c, p.points[i],
                       p.points[IF i < Len(p.points) THEN i + 1 ELSE i], p)}

\* the erase strokes of the settings object, applied to the grid
EraseStrokes(m, ww, hh, paths) ==
    m \ UNION {StrokeCells(paths[i], ww, hh) : i \in DOMAIN paths}

\* one call of postProcessMask with the strokes of the settings object: the
\* edits come first, the repair of the stencil follows
EditAndRepair(m, ww, hh, st) ==
    Repair(EraseStrokes(m, ww, hh, st.erasedPaths), ww, hh, st)

\* the mask effect's call on the drawn mask
PostProcessMask ==
    /\ pc = "drawn"
    /\ repair' = EditAndRepair(mask, w, h, CallSettings(settings, docToMask))
    /\ mask' = repair'.mask
    /\ pc' = IF repair'.threw THEN "threw" ELSE "repaired"
    /\ UNCHANGED <<w, h, maskIn, settings, it, contours, dxf,
                   points, epsilon, simplified, resimplified>>
    /\ UNCHANGED <<docToMask, previewVars, pathVars, callVars>>

-----------------------------------------------------------------------------
(* smoothMask: one pass of the for-loop over `it` *)

\* Count9 that leaves the cell itself out
Count9NoSelf(m, x, y) ==
    Cardinality({d \in (-1 .. 1) \X (-1 .. 1) :
                    d /= <<0, 0>> /\ <<x + d[1], y + d[2]>> \in m})

\* cnt: the foreground cells among the nine around and including (x, y)
Count9(m, x, y) ==
    Cardinality({d \in (-1 .. 1) \X (-1 .. 1) : <<x + d[1], y + d[2]>> \in m})

SmoothPass(m, ww, hh) ==
    {c \in Cells(ww, hh) :
        /\ c[1] >= 1 /\ c[1] < ww - 1
        /\ c[2] >= 1 /\ c[2] < hh - 1
        /\ Count9(m, c[1], c[2]) >= 5}

SmoothMaskIter ==
    /\ pc = "smooth"
    /\ it < settings.smooth
    /\ mask' = SmoothPass(mask, w, h)
    /\ it' = it + 1
    /\ pc' = IF it + 1 < settings.smooth THEN "smooth" ELSE "smoothed"
    /\ UNCHANGED <<w, h, maskIn, settings, contours, dxf,
                   points, epsilon, simplified, resimplified>>
    /\ UNCHANGED <<repairVars, previewVars, pathVars, callVars>>

-----------------------------------------------------------------------------
(* Tracing and export of a finished mask (maskRef.current) *)

\* the vectorisation step: extractAllContours on the current mask
ExtractAllContours ==
    /\ pc = "ready"
    /\ contours' = extractAllContours(mask, w, h)
    /\ pc' = "traced"
    /\ UNCHANGED <<w, h, mask, maskIn, settings, it, dxf,
                   points, epsilon, simplified, resimplified>>
    /\ UNCHANGED <<repairVars, previewVars, pathVars, callVars>>

\* handleDownloadDxf: buildDxfFromMask(maskRef.current, settings)
DownloadDxf ==
    /\ pc = "ready"
    /\ contours' = extractAllContours(mask, w, h)
    /\ dxf' = buildDxfFromMask(mask, w, h, settings)
    /\ pc' = "exported"
    /\ UNCHANGED <<w, h, mask, maskIn, settings, it,
                   points, epsilon, simplified, resimplified>>
    /\ UNCHANGED <<repairVars, previewVars, pathVars, callVars>>

InitExport ==
    /\ settings \in {[NoSettings EXCEPT !.vectorSmoothing = v, !.orientation = o] :
                        v \in {0, MaxVectorSmoothing}, o \in {"portrait", "landscape"}}
    /\ w = (IF settings.orientation = "portrait" THEN GridW ELSE GridH)
    /\ h = (IF settings.orientation = "portrait" THEN GridH ELSE GridW)
    /\ mask \in {m \in SUBSET Cells(w, h) : Cardinality(m) <= MaxInk}
    /\ maskIn = mask
    /\ pc = "ready"
    /\ it = 0
    /\ contours = << >> /\ dxf = << >>
    /\ points = << >> /\ epsilon = 0 /\ simplified = << >> /\ resimplified = << >>
    /\ docToMask = [n |-> 1, d |-> 1] /\ repair = NoRepair /\ NoPreview /\ NoPath /\ NoCalls

NextExport == ExtractAllContours \/ DownloadDxf

SpecExport == InitExport /\ [][NextExport]_vars

-----------------------------------------------------------------------------
(* smoothMask on every small grid *)

InitSmooth ==
    /\ w = SmoothW /\ h = SmoothH
    /\ mask \in SUBSET Cells(SmoothW, SmoothH)
    /\ maskIn = mask
    /\ settings \in {[NoSettings EXCEPT !.smooth = k] : k \in 1 .. MaxSmooth}
    /\ pc = "smooth"
    /\ it = 0
    /\ contours = << >> /\ dxf = << >>
    /\ points = << >> /\ epsilon = 0 /\ simplified = << >> /\ resimplified = << >>
    /\ docToMask = [n |-> 1, d |-> 1] /\ repair = NoRepair /\ NoPreview /\ NoPath /\ NoCalls

NextSmooth == SmoothMaskIter

SpecSmooth == InitSmooth /\ [][NextSmooth]_vars

-----------------------------------------------------------------------------
(* postProcessMask on inked sheets: everything is foreground but one      *)
(* rectangular hole off the border, at most one border cell and at most   *)
(* the corner cell <<1, 1>>.  The strip grid has a hole two cells wide,   *)
(* all of it boundary.                                                    *)

Rect(x0, x1, y0, y1) == (x0 .. x1) \X (y0 .. y1)

\* the sheets of a grid: a hole, an open border cell or none, the corner
\* cell open or not
Sheets(ww, hh, holes) ==
    {Cells(ww, hh) \ (hole \cup open \cup pocket) :
        hole \in holes,
        open \in {{}} \cup {{b} : b \in Border(ww, hh)},
        pocket \in {{}, {<<1, 1>>}}}

RectHoles(ww, hh) ==
    {Rect(x0, x1, y0, y1) : x0 \in 1 .. ww - 2, x1 \in 1 .. ww - 2,
                            y0 \in 1 .. hh - 2, y1 \in 1 .. hh - 2}

InitRepair ==
    /\ \/ /\ w = RepairW /\ h = RepairH
          /\ mask \in Sheets(w, h, RectHoles(w, h))
       \/ /\ w = StripLen + 2 /\ h = 4
          /\ mask \in Sheets(w, h, {Rect(1, StripLen, 1, 2)})
    /\ maskIn = mask
    /\ settings \in {[NoSettings EXCEPT !.stencilMode = TRUE, !.bridgeWidth = bw,
                                        !.bridgeCount = bc] :
                        bw \in 0 .. MaxBridgeWidth, bc \in 1 .. MaxBridgeCount}
    /\ pc = "drawn"
    /\ it = 0
    /\ contours = << >> /\ dxf = << >>
    /\ points = << >> /\ epsilon = 0 /\ simplified = << >> /\ resimplified = << >>
    /\ docToMask = [n |-> 1, d |-> 1] /\ repair = NoRepair /\ NoPreview /\ NoPath /\ NoCalls

NextRepair == PostProcessMask

SpecRepair == InitRepair /\ [][NextRepair]_vars

-----------------------------------------------------------------------------
(* extractAllContours on the masks of one filled rectangle *)

TraceW == 5       \* width of the grid of the rectangles
TraceH == 4       \* height of the grid of the rectangles

InitTrace ==
    /\ w = TraceW /\ h = TraceH
    /\ mask \in {Rect(x0, x1, y0, y1) : x0 \in 0 .. w - 1, x1 \in 0 .. w - 1,
                                         y0 \in 0 .. h - 1, y1 \in 0 .. h - 1}
    /\ maskIn = mask
    /\ settings = NoSettings
    /\ pc = "ready"
    /\ it = 0
    /\ contours = << >> /\ dxf = << >>
    /\ points = << >> /\ epsilon = 0 /\ simplified = << >> /\ resimplified = << >>
    /\ docToMask = [n |-> 1, d |-> 1] /\ repair = NoRepair /\ NoPreview /\ NoPath /\ NoCalls

NextTrace == ExtractAllContours

SpecTrace == InitTrace /\ [][NextTrace]_vars

-----------------------------------------------------------------------------
(* postProcessMask as the mask effect calls it, with the bridge width in   *)
(* cells: on sheets with two equal holes side by side, and on the strip    *)
(* grid; at most one border cell is open.  The right hole is kept or       *)
(* inked; the left one is kept, inked, kept without its corner cell, or    *)
(* inked but for one cell of the row below its top row.                    *)

HoleW == 5        \* width of each of the two holes
HoleH == 4        \* height of each of the two holes

\* internalW / docW for scale 100, for scale 50 and for scale 60 of the
\* document width A3_SHORT: Math.round(842 * 0.6) = 505
Factors == {[n |-> 1, d |-> 1], [n |-> 1, d |-> 2], [n |-> 505, d |-> A3_SHORT]}

TwoHoleSheets(ww, hh) ==
    {Cells(ww, hh) \ (left \cup right \cup open) :
        left \in {{}, Rect(1, HoleW, 1, HoleH), Rect(1, HoleW, 1, HoleH) \ {<<1, 1>>},
                  {<<HoleW - 2, 2>>}},
        right \in {{}, Rect(HoleW + 2, 2 * HoleW + 1, 1, HoleH)},
        open \in {{}} \cup {{b} : b \in Border(ww, hh)}}

InitBridge ==
    /\ \/ /\ w = 2 * HoleW + 3 /\ h = HoleH + 2
          /\ mask \in TwoHoleSheets(w, h)
       \/ /\ w = StripLen + 2 /\ h = 4
          /\ mask \in Sheets(w, h, {Rect(1, StripLen, 1, 2)})
    /\ maskIn = mask
    /\ settings \in {[NoSettings EXCEPT !.stencilMode = TRUE, !.bridgeWidth = bw,
                                        !.bridgeCount = bc] :
                        bw \in 0 .. MaxBridgeWidth, bc \in 1 .. MaxBridgeCount}
    /\ pc = "drawn"
    /\ it = 0
    /\ contours = << >> /\ dxf = << >>
    /\ points = << >> /\ epsilon = 0 /\ simplified = << >> /\ resimplified = << >>
    /\ docToMask \in Factors /\ repair = NoRepair /\ NoPreview /\ NoPath /\ NoCalls

NextBridge == PostProcessMask

SpecBridge == InitBridge /\ [][NextBridge]_vars

-----------------------------------------------------------------------------
(* postProcessMask on the same grid with the islands in every order *)

PostProcessMaskReordered ==
    /\ pc \in {"repaired", "threw"}
    /\ \E order \in Orders(Len(repair.islands)) :
          reordered' = RepairInOrder(maskIn, w, h, CallSettings(settings, docToMask), order)
    /\ pc' = "reordered"
    /\ UNCHANGED <<w, h, mask, maskIn, settings, it, contours, dxf,
                   points, epsilon, simplified, resimplified>>
    /\ UNCHANGED <<repairVars, previewVars, pathVars, capVars, vectorVars, rdpVars, eraseVars>>

NextOrder == PostProcessMask \/ PostProcessMaskReordered

SpecOrder == InitBridge /\ [][NextOrder]_vars

-----------------------------------------------------------------------------
(* postProcessMask with wide bridges on the sheets with two holes *)

InitWide ==
    /\ w = 2 * HoleW + 3 /\ h = HoleH + 2
    /\ mask \in TwoHoleSheets(w, h)
    /\ maskIn = mask
    /\ settings \in {[NoSettings EXCEPT !.stencilMode = TRUE, !.bridgeWidth = bw,
                                        !.bridgeCount = bc] :
                        bw \in 0 .. MaxWideBridge, bc \in 1 .. MaxBridgeCount}
    /\ pc = "drawn"
    /\ it = 0
    /\ contours = << >> /\ dxf = << >>
    /\ points = << >> /\ epsilon = 0 /\ simplified = << >> /\ resimplified = << >>
    /\ docToMask = [n |-> 1, d |-> 1] /\ repair = NoRepair /\ NoPreview /\ NoPath /\ NoCalls

NextWide == PostProcessMask

SpecWide == InitWide /\ [][NextWide]_vars

-----------------------------------------------------------------------------
(* simplifyPolyline on short point lists, applied once and again *)

SimplifyPolyline ==
    /\ pc = "points"
    /\ simplified' = simplifyPolyline(points, epsilon)
    /\ pc' = "simplified"
    /\ UNCHANGED <<w, h, mask, maskIn, settings, it, contours, dxf,
                   points, epsilon, resimplified>>
    /\ UNCHANGED <<repairVars, previewVars, pathVars, callVars>>

Resimplify ==
    /\ pc = "simplified"
    /\ resimplified' = simplifyPolyline(simplified, epsilon)
    /\ pc' = "resimplified"
    /\ UNCHANGED <<w, h, mask, maskIn, settings, it, contours, dxf,
                   points, epsilon, simplified>>
    /\ UNCHANGED <<repairVars, previewVars, pathVars, callVars>>

Unscaled == [n |-> 1, d |-> 1]

\* the tolerances 0, 1/2 and 1
Tolerances == {[n |-> 0, d |-> 1], [n |-> 1, d |-> 2], [n |-> 1, d |-> 1]}

\* the step from one input point to the next: none (a repeated point), along
\* an axis or along a diagonal
Moves == {<<0, 0>>, <<1, 0>>, <<-1, 0>>, <<0, 1>>, <<0, -1>>, <<1, 1>>, <<1, -1>>}

\* the point lists of at most n points that start at the origin, the empty
\* list included
RECURSIVE Walks(_)
Walks(n) ==
    IF n = 0 THEN {<< >>}
    ELSE IF n = 1 THEN {<< >>, << <<0, 0>> >>}
    ELSE LET shorter == Walks(n - 1)
         IN  shorter \cup {Append(q, <<q[Len(q)][1] + m[1], q[Len(q)][2] + m[2]>>) :
                              q \in shorter \ {<< >>}, m \in Moves}

InitSimplify ==
    /\ w = GridW /\ h = GridH
    /\ mask = {} /\ maskIn = {}
    /\ settings = NoSettings
    /\ pc = "points"
    /\ it = 0
    /\ contours = << >> /\ dxf = << >>
    /\ points \in {PointList(Unscaled, Unscaled, q) : q \in Walks(MaxLen)}
    /\ epsilon \in Tolerances
    /\ simplified = << >> /\ resimplified = << >>
    /\ docToMask = [n |-> 1, d |-> 1] /\ repair = NoRepair /\ NoPreview /\ NoPath /\ NoCalls

NextSimplify == SimplifyPolyline \/ Resimplify

SpecSimplify == InitSimplify /\ [][NextSimplify]_vars

-----------------------------------------------------------------------------
(* both versions of simplifyPolyline on the same point list *)

SimplifyRecursive ==
    /\ pc = "simplified"
    /\ simplifiedRecursive' = simplifyPolylineRecursive(points, epsilon)
    /\ pc' = "both"
    /\ UNCHANGED <<w, h, mask, maskIn, settings, it, contours, dxf,
                   points, epsilon, simplified, resimplified>>
    /\ UNCHANGED <<repairVars, previewVars, pathVars, capVars, vectorVars, orderVars, eraseVars>>

NextRdp == SimplifyPolyline \/ SimplifyRecursive

SpecRdp == InitSimplify /\ [][NextRdp]_vars

-----------------------------------------------------------------------------
(* simplifyPoints on every short point list and every small maxPoints *)

SimplifyPoints ==
    /\ pc = "points"
    /\ simplified' = simplifyPoints(points, maxPointsArg)
    /\ pc' = "capped"
    /\ UNCHANGED <<w, h, mask, maskIn, settings, it, contours, dxf,
                   points, epsilon, resimplified>>
    /\ UNCHANGED <<repairVars, previewVars, pathVars, callVars>>

InitCap ==
    /\ w = GridW /\ h = GridH
    /\ mask = {} /\ maskIn = {}
    /\ settings = NoSettings
    /\ pc = "points"
    /\ it = 0
    /\ contours = << >> /\ dxf = << >>
    /\ points \in {PointList(Unscaled, Unscaled, q) : q \in Walks(MaxLen)}
    /\ epsilon = 0
    /\ simplified = << >> /\ resimplified = << >>
    /\ docToMask = [n |-> 1, d |-> 1] /\ repair = NoRepair /\ NoPreview /\ NoPath
    /\ maxPointsArg \in 1 .. MaxLen /\ NoVector /\ NoRdp /\ NoOrder /\ NoErase

NextCap == SimplifyPoints

SpecCap == InitCap /\ [][NextCap]_vars

-----------------------------------------------------------------------------
(* buildBezierPath with vectorSmoothing 0 on short point lists, in each of *)
(* its three snapshots                                                     *)

PREVIEW_MAX_POINTS == 3000     \* buildBezierPath(contour, 3000, smoothing)

BuildBezierPath ==
    /\ pc = "contour"
    /\ path' = buildBezierPath(points, PREVIEW_MAX_POINTS, snapshot)
    /\ pc' = "path"
    /\ UNCHANGED <<w, h, mask, maskIn, settings, it, contours, dxf,
                   points, epsilon, simplified, resimplified>>
    /\ UNCHANGED <<repairVars, previewVars, snapshot, callVars>>

InitPath ==
    /\ w = GridW /\ h = GridH
    /\ mask = {} /\ maskIn = {}
    /\ settings = NoSettings
    /\ pc = "contour"
    /\ it = 0
    /\ contours = << >> /\ dxf = << >>
    /\ points \in {PointList(Unscaled, Unscaled, q) : q \in Walks(MaxLen)}
    /\ epsilon = 0
    /\ simplified = << >> /\ resimplified = << >>
    /\ docToMask = [n |-> 1, d |-> 1] /\ repair = NoRepair /\ NoPreview
    /\ path = << >> /\ snapshot \in {"78", "484", "791"}
    /\ NoCalls

NextPath == BuildBezierPath

SpecPath == InitPath /\ [][NextPath]_vars

-----------------------------------------------------------------------------
(* The mask effect of PreviewCanvas.  A run of the effect holds the props  *)
(* it closed over, its flag `active` and its timer.  React runs the        *)
(* cleanup of the last run and then the effect again once a dependency     *)
(* has changed.  The snapshot "timer" starts the work from setTimeout and  *)
(* clears the timer in the cleanup; the snapshot "await" awaits a timer    *)
(* that the cleanup leaves alone.                                          *)

MaxRuns == 3      \* most runs of the mask effect

RECURSIVE smoothMask(_, _, _, _)
smoothMask(m, ww, hh, iterations) ==
    IF iterations <= 0 THEN m ELSE smoothMask(SmoothPass(m, ww, hh), ww, hh, iterations - 1)

\* bwMask[y][x] = lum < thresh, for an image of cells of luminance 0 on white
Binarize(img, thresh, ww, hh) ==
    {c \in Cells(ww, hh) : (IF c \in img.dark THEN 0 ELSE 255) < thresh}

\* StageSettings that hands no erase stroke to postProcessMask
StageSettingsNoStrokes(st, factor, v) ==
    [CallSettings(st, factor) EXCEPT !.erasedPaths = << >>]

\* the settings object of the call: ControlPanel passes the bridge width as
\* it is and no erase strokes
StageSettings(st, factor, v) ==
    IF v = "await"
    THEN [CallSettings(st, [n |-> 1, d |-> 1]) EXCEPT !.erasedPaths = << >>]
    ELSE CallSettings(st, factor)

\* binarize, postProcessMask, smoothMask: the mask, or the error raised
ProcessMask(img, st, cs, ww, hh) ==
    LET r == EditAndRepair(Binarize(img, st.threshold, ww, hh), ww, hh, cs)
    IN  [threw |-> r.threw,
         mask |-> IF r.threw THEN {}
                  ELSE IF st.smooth > 0 THEN smoothMask(r.mask, ww, hh, st.smooth)
                  ELSE r.mask]

\* App: setOriginalImage(img) from the loaded file
ChangeImage ==
    /\ pc = "preview"
    /\ \E dark \in {Cells(w, h), Cells(w, h) \ (Rect(1, w - 2, 1, h - 2) \cup {<<0, 0>>})} :
          /\ image /= [loaded |-> TRUE, dark |-> dark]
          /\ image' = [loaded |-> TRUE, dark |-> dark]
    /\ UNCHANGED <<w, h, mask, maskIn, settings, pc, it, contours, dxf,
                   points, epsilon, simplified, resimplified>>
    /\ UNCHANGED <<repairVars, effects, delivered, variant, pathVars, callVars>>

\* ControlPanel: onSettingsChange with one field changed
ChangeSettings ==
    /\ pc = "preview"
    /\ \E st \in {[settings EXCEPT !.bridgeWidth = b] : b \in {0, 2}} :
          /\ st /= settings
          /\ settings' = st
    /\ UNCHANGED <<w, h, mask, maskIn, pc, it, contours, dxf,
                   points, epsilon, simplified, resimplified>>
    /\ UNCHANGED <<repairVars, previewVars, pathVars, callVars>>

\* the effect is run on mount and when a dependency differs from the last run's
EffectDue ==
    IF effects = << >> THEN TRUE
    ELSE effects[Len(effects)].image /= image \/ effects[Len(effects)].settings /= settings

\* cleanup of the last run, then the effect body
MaskEffect ==
    /\ pc = "preview"
    /\ EffectDue
    /\ Len(effects) < MaxRuns
    /\ LET cleaned == [r \in 1 .. Len(effects) |->
                          IF r < Len(effects) THEN effects[r]
                          ELSE [effects[r] EXCEPT
                                   !.active = FALSE,
                                   !.timer = IF variant = "timer" /\ @ = "pending"
                                             THEN "cleared" ELSE @]]
           started == [image |-> image, settings |-> settings, active |-> TRUE,
                       timer |-> IF variant = "await" /\ ~image.loaded
                                 THEN "none" ELSE "pending"]
       IN  effects' = Append(cleaned, started)
    /\ UNCHANGED <<w, h, mask, maskIn, settings, pc, it, contours, dxf,
                   points, epsilon, simplified, resimplified>>
    /\ UNCHANGED <<repairVars, image, delivered, variant, pathVars, callVars>>

\* what the work of run r leaves in onMaskReady, currentMaskRef and the
\* preview once processMask has returned `out`: nothing new without an image,
\* after an error or when the run is no longer active
Handed(r, run, out) ==
    IF ~run.image.loaded \/ out.threw \/ ~run.active THEN delivered
    ELSE [run |-> r, mask |-> out.mask, image |-> run.image, settings |-> run.settings]

\* the timer callback of run r
MaskTimerBody(r) ==
    Handed(r, effects[r],
           ProcessMask(effects[r].image, effects[r].settings,
                       StageSettings(effects[r].settings, docToMask, variant), w, h))

\* the timer of run r fires
MaskTimer ==
    /\ pc = "preview"
    /\ \E r \in 1 .. Len(effects) :
          /\ effects[r].timer = "pending"
          /\ effects' = [effects EXCEPT ![r].timer = "done"]
          /\ delivered' = MaskTimerBody(r)
    /\ UNCHANGED <<w, h, mask, maskIn, settings, pc, it, contours, dxf,
                   points, epsilon, simplified, resimplified>>
    /\ UNCHANGED <<repairVars, image, variant, pathVars, callVars>>

InitPreview ==
    /\ w = RepairW /\ h = RepairH
    /\ mask = {} /\ maskIn = {}
    /\ settings = [NoSettings EXCEPT !.stencilMode = TRUE, !.bridgeWidth = 2, !.bridgeCount = 2]
    /\ pc = "preview"
    /\ it = 0
    /\ contours = << >> /\ dxf = << >>
    /\ points = << >> /\ epsilon = 0 /\ simplified = << >> /\ resimplified = << >>
    /\ docToMask \in {[n |-> 1, d |-> 1], [n |-> 505, d |-> 842]}
    /\ repair = NoRepair
    /\ image = NoImage /\ effects = << >> /\ delivered = NoDelivery
    /\ variant \in {"timer", "await"}
    /\ NoPath /\ NoCalls

NextPreview == ChangeImage \/ ChangeSettings \/ MaskEffect \/ MaskTimer

SpecPreview == InitPreview /\ [][NextPreview]_vars

-----------------------------------------------------------------------------
(* PreviewCanvas: the vectorisation effect.  A Path2D is written as the     *)
(* contour it was built from and the smoothing it was built with, in tenths *)

\* the grids the mask stage hands over: all ink, or all but one cell
PreviewMasks == {m \in SUBSET Cells(GridW, GridH) : Cardinality(m) >= GridW * GridH - 1}

\* the dependency list of the effect: previewMask is a new object each time
VectorDeps == [previewMask |-> delivered.run, bezierMode |-> settings.bezierMode,
               vectorSmoothing |-> settings.vectorSmoothing]

\* ControlPanel: the bezierMode switch
ToggleBezierMode ==
    /\ pc = "vector"
    /\ changes < MaxChanges
    /\ settings' = [settings EXCEPT !.bezierMode = ~@]
    /\ changes' = changes + 1
    /\ UNCHANGED <<w, h, mask, maskIn, pc, it, contours, dxf,
                   points, epsilon, simplified, resimplified>>
    /\ UNCHANGED <<repairVars, previewVars, pathVars, capVars, rdpVars, orderVars, eraseVars>>
    /\ UNCHANGED <<vectorRun, vectorTimeout, processing, vectorPaths>>

\* ControlPanel: the vectorSmoothing slider, shown while bezierMode is on
ChangeVectorSmoothing ==
    /\ pc = "vector"
    /\ changes < MaxChanges
    /\ settings.bezierMode
    /\ \E v \in {0, MaxVectorSmoothing} \ {settings.vectorSmoothing} :
          settings' = [settings EXCEPT !.vectorSmoothing = v]
    /\ changes' = changes + 1
    /\ UNCHANGED <<w, h, mask, maskIn, pc, it, contours, dxf,
                   points, epsilon, simplified, resimplified>>
    /\ UNCHANGED <<repairVars, previewVars, pathVars, capVars, rdpVars, orderVars, eraseVars>>
    /\ UNCHANGED <<vectorRun, vectorTimeout, processing, vectorPaths>>

\* the mask stage ends: currentMaskRef.current = bwMask, onMaskReady(bwMask),
\* setPreviewMask(previewData)
NewPreviewMask ==
    /\ pc = "vector"
    /\ changes < MaxChanges
    /\ \E m \in PreviewMasks :
          delivered' = [run |-> delivered.run + 1, mask |-> m, image |-> image,
                        settings |-> settings]
    /\ changes' = changes + 1
    /\ UNCHANGED <<w, h, mask, maskIn, settings, pc, it, contours, dxf,
                   points, epsilon, simplified, resimplified>>
    /\ UNCHANGED <<repairVars, image, effects, variant, pathVars, capVars, rdpVars, orderVars, eraseVars>>
    /\ UNCHANGED <<vectorRun, vectorTimeout, processing, vectorPaths>>

\* the effect is run on mount and when a dependency differs from the last run's
VectorEffectDue == vectorRun /= VectorDeps

\* cleanup of the last run, then the effect body
VectorEffect ==
    /\ pc = "vector"
    /\ VectorEffectDue
    /\ vectorRun' = VectorDeps
    /\ IF ~settings.bezierMode
       THEN /\ vectorTimeout' = (IF vectorTimeout = "pending" THEN "cleared" ELSE vectorTimeout)
            /\ vectorPaths' = << >>
            /\ UNCHANGED processing
       ELSE /\ vectorTimeout' = "pending"
            /\ processing' = TRUE
            /\ UNCHANGED vectorPaths
    /\ UNCHANGED <<w, h, mask, maskIn, settings, pc, it, contours, dxf,
                   points, epsilon, simplified, resimplified>>
    /\ UNCHANGED <<repairVars, previewVars, pathVars, capVars, rdpVars, orderVars, eraseVars, changes>>

\* the paths the timer callback builds from the contours of the mask
VectorPathsOf(m, ww, hh, smoothing) ==
    LET cs == extractAllContours(m, ww, hh)
    IN  [k \in 1 .. Len(cs) |->
            [contour |-> cs[k], smoothing |-> Max(10 * smoothing, 5)]]

\* the 300 ms timer fires
VectorTimer ==
    /\ pc = "vector"
    /\ vectorTimeout = "pending"
    /\ vectorTimeout' = "done"
    /\ processing' = FALSE
    /\ vectorPaths' = (IF delivered.run = 0 THEN vectorPaths
                       ELSE VectorPathsOf(delivered.mask, w, h, vectorRun.vectorSmoothing))
    /\ UNCHANGED <<w, h, mask, maskIn, settings, pc, it, contours, dxf,
                   points, epsilon, simplified, resimplified>>
    /\ UNCHANGED <<repairVars, previewVars, pathVars, capVars, rdpVars, orderVars, eraseVars, vectorRun, changes>>

InitVector ==
    /\ w = GridW /\ h = GridH
    /\ mask = {} /\ maskIn = {}
    /\ settings \in {[NoSettings EXCEPT !.bezierMode = b, !.vectorSmoothing = v] :
                        b \in BOOLEAN, v \in {0, MaxVectorSmoothing}}
    /\ pc = "vector"
    /\ it = 0
    /\ contours = << >> /\ dxf = << >>
    /\ points = << >> /\ epsilon = 0 /\ simplified = << >> /\ resimplified = << >>
    /\ docToMask = [n |-> 1, d |-> 1] /\ repair = NoRepair /\ NoPreview /\ NoPath /\ NoCalls

NextVector ==
    ToggleBezierMode \/ ChangeVectorSmoothing \/ NewPreviewMask \/ VectorEffect \/ VectorTimer

\* the step of VectorTimer as the timer sees it
VectorTimerFires == pc = "vector" /\ vectorTimeout = "pending" /\ vectorTimeout' = "done"

\* React runs a due effect after the render, and the browser fires a timer
\* that is not cleared; VectorTimer is the one action with a step of
\* VectorTimerFires
SpecVector ==
    /\ InitVector /\ [][NextVector]_vars
    /\ WF_vars(VectorEffect) /\ WF_vectorTimeout(VectorTimerFires)

MaxBrush == 2     \* largest brush size of an erase stroke

\* the strokes of the eraser: one point, or two different points
Strokes ==
    LET pts == {<<2, 2>>, <<4, 2>>, <<4, 4>>}
    IN  {[points |-> <<a>>, size |-> sz] : a \in pts, sz \in 1 .. MaxBrush}
        \cup {[points |-> <<ab[1], ab[2]>>, size |-> sz] :
                 ab \in {x \in pts \X pts : x[1] /= x[2]}, sz \in 1 .. MaxBrush}

\* PreviewCanvas with an image loaded and one erase stroke in the settings
InitErase ==
    /\ w = RepairW /\ h = RepairH
    /\ mask = {} /\ maskIn = {}
    /\ settings \in {[NoSettings EXCEPT !.stencilMode = sm, !.bridgeWidth = bw,
                                        !.bridgeCount = 2, !.smooth = k,
                                        !.erasedPaths = <<p>>] :
                        sm \in BOOLEAN, bw \in {0, 2}, k \in 0 .. 1, p \in Strokes}
    /\ pc = "preview"
    /\ it = 0
    /\ contours = << >> /\ dxf = << >>
    /\ points = << >> /\ epsilon = 0 /\ simplified = << >> /\ resimplified = << >>
    /\ docToMask \in {[n |-> 1, d |-> 1], [n |-> 1, d |-> 2]}
    /\ repair = NoRepair
    /\ image \in {[loaded |-> TRUE, dark |-> dark] :
                     dark \in {Cells(w, h), Cells(w, h) \ Rect(1, w - 2, 1, h - 2)}}
    /\ effects = << >> /\ delivered = NoDelivery
    /\ variant = "timer"
    /\ NoPath /\ NoCalls

NextErase == MaskEffect \/ MaskTimer

SpecErase == InitErase /\ [][NextErase]_vars

-----------------------------------------------------------------------------
(* PreviewCanvas: erase strokes with the eraser tool.  The parent's          *)
(* onErasedPathsUpdate puts the list it is handed into settings.erasedPaths  *)
(* and PreviewCanvas is rendered again with it.                              *)

\* the document points of the pointer events
ErasePoints == {<<2, 2>>, <<4, 2>>, <<4, 4>>}

\* handleMouseDown with activeTool 'eraser'
HandleMouseDown ==
    /\ pc = "erase"
    /\ activeErasePath = << >>
    /\ Len(completed) < MaxStrokes
    /\ \E coords \in ErasePoints, size \in 1 .. MaxBrush :
          activeErasePath' = <<[points |-> <<coords>>, size |-> size]>>
    /\ UNCHANGED <<w, h, mask, maskIn, settings, pc, it, contours, dxf,
                   points, epsilon, simplified, resimplified>>
    /\ UNCHANGED <<repairVars, previewVars, pathVars, capVars, vectorVars, rdpVars, orderVars>>
    /\ UNCHANGED <<eraseTimers, completed, handed>>

\* handleMouseMove while dragging: a point further than 0.5 from the last one
\* is pushed
HandleMouseMove ==
    /\ pc = "erase"
    /\ activeErasePath /= << >>
    /\ Len(activeErasePath[1].points) < 2
    /\ \E coords \in ErasePoints :
          LET pts == activeErasePath[1].points
              lastPt == pts[Len(pts)]
              dx == coords[1] - lastPt[1]
              dy == coords[2] - lastPt[2]
          IN  /\ 4 * (dx * dx + dy * dy) > 1
              /\ activeErasePath' = <<[activeErasePath[1] EXCEPT !.points = Append(pts, coords)]>>
    /\ UNCHANGED <<w, h, mask, maskIn, settings, pc, it, contours, dxf,
                   points, epsilon, simplified, resimplified>>
    /\ UNCHANGED <<repairVars, previewVars, pathVars, capVars, vectorVars, rdpVars, orderVars>>
    /\ UNCHANGED <<eraseTimers, completed, handed>>

\* finalizeErase: newPaths is built from the settings of this render and
\* handed over by a 10 ms timer
FinalizeErase ==
    /\ pc = "erase"
    /\ activeErasePath /= << >>
    /\ eraseTimers' = Append(eraseTimers, settings.erasedPaths \o activeErasePath)
    /\ completed' = completed \o activeErasePath
    /\ activeErasePath' = << >>
    /\ UNCHANGED <<w, h, mask, maskIn, settings, pc, it, contours, dxf,
                   points, epsilon, simplified, resimplified>>
    /\ UNCHANGED <<repairVars, previewVars, pathVars, capVars, vectorVars, rdpVars, orderVars>>
    /\ UNCHANGED handed

\* the parent's handler: the list becomes the erase strokes of the settings
onErasedPathsUpdate(st, paths) == [st EXCEPT !.erasedPaths = paths]

\* the oldest timer fires: onErasedPathsUpdate(newPaths), and PreviewCanvas
\* is rendered with the parent's new settings
ErasedPathsUpdate ==
    /\ pc = "erase"
    /\ eraseTimers /= << >>
    /\ handed' = eraseTimers[1]
    /\ settings' = onErasedPathsUpdate(settings, eraseTimers[1])
    /\ eraseTimers' = Tail(eraseTimers)
    /\ UNCHANGED <<w, h, mask, maskIn, pc, it, contours, dxf,
                   points, epsilon, simplified, resimplified>>
    /\ UNCHANGED <<repairVars, previewVars, pathVars, capVars, vectorVars, rdpVars, orderVars>>
    /\ UNCHANGED <<activeErasePath, completed>>

InitStrokes ==
    /\ w = RepairW /\ h = RepairH
    /\ mask = {} /\ maskIn = {}
    /\ settings = NoSettings
    /\ pc = "erase"
    /\ it = 0
    /\ contours = << >> /\ dxf = << >>
    /\ points = << >> /\ epsilon = 0 /\ simplified = << >> /\ resimplified = << >>
    /\ docToMask = [n |-> 1, d |-> 1] /\ repair = NoRepair /\ NoPreview /\ NoPath /\ NoCalls

NextStrokes == HandleMouseDown \/ HandleMouseMove \/ FinalizeErase \/ ErasedPathsUpdate

SpecStrokes == InitStrokes /\ [][NextStrokes]_vars

-----------------------------------------------------------------------------
(* the mask stage with stencil mode and smoothing, on the sheets with one   *)
(* hole two cells away from the border                                      *)

StencilImages(ww, hh) ==
    {[loaded |-> TRUE, dark |-> Cells(ww, hh) \ (Rect(2, ww - 3, 2, hh - 3) \cup open)] :
        open \in {{}} \cup {{b} : b \in Border(ww, hh)}}

InitStencil ==
    /\ w = HoleW + 4 /\ h = HoleH + 4
    /\ mask = {} /\ maskIn = {}
    /\ settings \in {[NoSettings EXCEPT !.stencilMode = TRUE, !.bridgeWidth = bw,
                                        !.bridgeCount = bc, !.smooth = k] :
                        bw \in 1 .. MaxBridgeWidth, bc \in 1 .. MaxBridgeCount,
                        k \in 1 .. MaxSmooth}
    /\ pc = "preview"
    /\ it = 0
    /\ contours = << >> /\ dxf = << >>
    /\ points = << >> /\ epsilon = 0 /\ simplified = << >> /\ resimplified = << >>
    /\ docToMask \in {[n |-> 1, d |-> 1], [n |-> 1, d |-> 2]}
    /\ repair = NoRepair
    /\ image \in StencilImages(w, h)
    /\ effects = << >> /\ delivered = NoDelivery
    /\ variant = "timer"
    /\ NoPath /\ NoCalls

NextStencil == MaskEffect \/ MaskTimer

SpecStencil == InitStencil /\ [][NextStencil]_vars

-----------------------------------------------------------------------------
(* Reading a contour and a DXF text back *)

\* the grid cell a traced point <<2px+1, 2py+1>> stands for
CellOfPoint(p) == << (p[1] - 1) \div 2, (p[2] - 1) \div 2 >>

Adjacent8(c, d) == c /= d /\ Abs(c[1] - d[1]) <= 1 /\ Abs(c[2] - d[2]) <= 1

\* the 4-connected foreground component of the cell c
ComponentOf(m, c) == Flood4(m, {c}, {c})

\* the group values of the pairs with group code `code`, in file order
GroupValues(text, code) ==
    LET pairs == Len(text) \div 2
        idx == SelectSeq([k \in 1 .. pairs |-> k], LAMBDA k : text[2 * k - 1] = TextLine(code))
    IN  [j \in 1 .. Len(idx) |-> text[2 * idx[j]]]

\* the entity and section markers: the values of the group code 0
EntityNames(text) == LET v == GroupValues(text, "0") IN [j \in 1 .. Len(v) |-> v[j].text]

CountOf(names, name) == Cardinality({j \in 1 .. Len(names) : names[j] = name})

\* names[first .. ] is a run of POLYLINE, at least two VERTEX, SEQEND blocks
\* closed by ENDSEC and EOF: read record by record, a POLYLINE is followed by
\* two VERTEX, a VERTEX by a VERTEX or a SEQEND, a SEQEND by a POLYLINE or
\* the closing ENDSEC
BlocksFrom(names, first) ==
    LET last == Len(names) - 2
    IN  /\ last >= first - 1
        /\ names[last + 1] = "ENDSEC" /\ names[last + 2] = "EOF"
        /\ last >= first => names[first] = "POLYLINE"
        /\ \A i \in first .. last :
              \/ /\ names[i] = "POLYLINE"
                 /\ i + 2 <= last /\ names[i + 1] = "VERTEX" /\ names[i + 2] = "VERTEX"
              \/ /\ names[i] = "VERTEX"
                 /\ i > first /\ names[i - 1] \in {"POLYLINE", "VERTEX"}
                 /\ i + 1 <= last /\ names[i + 1] \in {"VERTEX", "SEQEND"}
              \/ /\ names[i] = "SEQEND"
                 /\ names[i - 1] = "VERTEX"
                 /\ i = last \/ names[i + 1] = "POLYLINE"

\* header section, ENTITIES section start, then the blocks
WellFormedDxf(text) ==
    LET names == EntityNames(text)
    IN  /\ Len(text) % 2 = 0
        /\ Len(names) >= 5
        /\ SubSeq(text, 1, Len(DxfHeader)) = DxfHeader
        /\ names[1] = "SECTION" /\ names[2] = "ENDSEC" /\ names[3] = "SECTION"
        /\ BlocksFrom(names, 4)

\* every POLYLINE record carries the pair 70 / 1 before its first VERTEX
PolylinesClosed(text) ==
    \A i \in 1 .. Len(text) :
        (i % 2 = 0 /\ text[i] = TextLine("POLYLINE") /\ text[i - 1] = TextLine("0")) =>
            \E j \in i + 1 .. Len(text) :
                /\ j % 2 = 1 /\ text[j] = TextLine("70") /\ text[j + 1] = TextLine("1")
                /\ \A k \in i + 1 .. j : k % 2 = 1 => text[k] /= TextLine("0")

\* the points buildDxfFromMask writes, contour after contour
RECURSIVE WrittenPoints(_, _, _)
WrittenPoints(cs, st, k) ==
    IF k > Len(cs) THEN << >>
    ELSE LET pl == DxfPoints(cs[k], st)
         IN  [j \in 1 .. Len(pl.pts) |-> [p |-> pl.pts[j], sx |-> pl.sx, sy |-> pl.sy]]
                \o WrittenPoints(cs, st, k + 1)

-----------------------------------------------------------------------------
\* C2: every contour extractAllContours returns has at least 3 points and is
\* a closed loop: the trace stopped by stepping back onto the seed, so the
\* safety counter (4 * w * h pushes) was not used up and each point and its
\* cyclic successor, last-to-first included, are 8-adjacent cells of one
\* component.
C2_ContoursClosed ==
    pc = "traced" =>
        \A k \in 1 .. Len(contours) :
            LET c == contours[k].pts
                L == Len(c)
            IN  /\ L >= 3
                /\ L < 4 * w * h
                /\ \A i \in 1 .. L :
                      /\ Adjacent8(CellOfPoint(c[i]), CellOfPoint(c[(i % L) + 1]))
                      /\ CellOfPoint(c[i]) \in ComponentOf(mask, CellOfPoint(c[1]))

\* C3: no contour is returned for a 4-connected foreground component of
\* fewer than 4 cells.
C3_NoiseFloor ==
    pc = "traced" =>
        \A k \in 1 .. Len(contours) :
            Cardinality(ComponentOf(mask, CellOfPoint(contours[k].pts[1]))) >= 4

-----------------------------------------------------------------------------
\* the enclosed background regions of a mask: the 4-connected components of
\* the background cells no border flood reaches
RECURSIVE Regions(_, _)
Regions(open, ww) ==
    IF open = {} THEN {}
    ELSE LET s == FirstInRaster(open, ww)
             comp == Flood4(open, {s}, {s})
         IN  {comp} \cup Regions(open \ comp, ww)

Enclosed(m, ww, hh) == Regions(Cells(ww, hh) \ (m \cup BgConnected(m, ww, hh)), ww)

\* C1: after postProcessMask with stencilMode on, an integer bridgeWidth
\* >= 1, bridgeCount >= 1 and a background border cell in the grid, every
\* enclosed background region of the input that was not filled as noise is
\* background joined to the border, and the result has no enclosed
\* background region at all.
C1_IslandsBridged ==
    (/\ pc = "repaired"
     /\ settings.stencilMode /\ settings.bridgeWidth >= 1 /\ settings.bridgeCount >= 1
     /\ Border(w, h) \ maskIn /= {}) =>
        /\ \A r \in Enclosed(maskIn, w, h) :
              Cardinality(r) >= NOISE_PIXELS => r \subseteq BgConnected(mask, w, h)
        /\ Enclosed(mask, w, h) = {}

C1_Witness ==
    /\ pc = "repaired"
    /\ settings.bridgeWidth >= 1
    /\ Border(w, h) \ maskIn /= {}
    /\ \E r \in Enclosed(maskIn, w, h) :
          /\ Cardinality(r) >= NOISE_PIXELS
          /\ r \subseteq BgConnected(mask, w, h)
    /\ mask /= maskIn

\* b is a of which elements were dropped: a subsequence in the same order
RECURSIVE IsSubsequence(_, _)
IsSubsequence(b, a) ==
    IF b = << >> THEN TRUE
    ELSE IF a = << >> THEN FALSE
    ELSE IF Head(a) = Head(b) THEN IsSubsequence(Tail(b), Tail(a))
    ELSE IsSubsequence(b, Tail(a))

\* C4 as stated: for every input point list and every epsilon >= 0 the
\* result of simplifyPolyline is a subsequence of the input in the original
\* order, holds the first and the last input point, and has at least 2
\* points.
C4_SubsequenceEveryInput ==
    pc = "simplified" =>
        /\ IsSubsequence(simplified.pts, points.pts)
        /\ Len(simplified.pts) >= 2
        /\ simplified.pts[1] = points.pts[1]
        /\ simplified.pts[Len(simplified.pts)] = points.pts[Len(points.pts)]

\* C4 amended: for every input of at least 2 points and every epsilon >= 0
\* the result is a subsequence of the input in the original order, holds the
\* first and the last input point and has at least 2 points; an input of
\* fewer than 2 points is returned unchanged.
C4_Subsequence ==
    pc = "simplified" =>
        /\ IsSubsequence(simplified.pts, points.pts)
        /\ Len(points.pts) >= 2 =>
              /\ Len(simplified.pts) >= 2
              /\ simplified.pts[1] = points.pts[1]
              /\ simplified.pts[Len(simplified.pts)] = points.pts[Len(points.pts)]
        /\ Len(points.pts) < 2 => simplified.pts = points.pts

C4_Witness ==
    /\ pc = "simplified"
    /\ Len(points.pts) = MaxLen
    /\ Len(simplified.pts) = 3

\* C5: simplifyPolyline is idempotent: simplifying its own result with the
\* same epsilon, epsilon = 0 included, returns that result unchanged.
C5_Idempotent == pc = "resimplified" => resimplified = simplified

C5_Witness ==
    /\ pc = "resimplified"
    /\ epsilon.n = 0
    /\ Len(points.pts) = MaxLen
    /\ Len(simplified.pts) \in 3 .. MaxLen - 1
    /\ resimplified = simplified

\* C6: for a mask that yields no contour buildDxfFromMask returns the
\* minimal document (header section, empty ENTITIES section, ENDSEC, EOF),
\* not the empty string.
C6_EmptyDocument ==
    (pc = "exported" /\ Len(contours) = 0) => dxf = DxfHeader \o DxfFooter

C8_FlippedY ==
    pc = "exported" =>
        LET docHeight == getA3Dimensions(settings.orientation).height
            wr == WrittenPoints(contours, settings, 1)
            xs == GroupValues(dxf, "10")
            ys == GroupValues(dxf, "20")
        IN  /\ Len(xs) = Len(wr) /\ Len(ys) = Len(wr)
            /\ \A j \in 1 .. Len(wr) :
                  /\ Len(xs[j].frac) = 3 /\ Len(ys[j].frac) = 3
                  /\ xs[j] = toFixed3(wr[j].p[1] * wr[j].sx.n, wr[j].sx.d)
                  /\ ys[j] = toFixed3(docHeight * wr[j].sy.d - wr[j].p[2] * wr[j].sy.n,
                                      wr[j].sy.d)

-----------------------------------------------------------------------------
C10_BorderUnchanged ==
    [][it' = it + 1 =>
        \A c \in Border(w, h) : (c \in mask') <=> (c \in mask)]_vars

-----------------------------------------------------------------------------
\* the newest run of the mask effect has closed over the current props and
\* its work is over
Settled ==
    /\ effects /= << >>
    /\ effects[Len(effects)].image = image
    /\ effects[Len(effects)].settings = settings
    /\ effects[Len(effects)].timer = "done"

\* the first half of C11 alone: a mask is handed on only by the newest run of
\* the effect, never by a run that a newer run has superseded
C11_NoStaleDelivery ==
    [][delivered' /= delivered => delivered'.run = Len(effects)]_vars

\* C11: for every sequence of image and settings changes, a mask computed for
\* superseded inputs is never delivered once the newer effect run has
\* started, and the last mask delivered is the one computed from the latest
\* inputs: when the newest run has worked on the current image and settings,
\* the delivered mask is the mask of that image and those settings.
C11_LatestMaskDelivered ==
    /\ [][delivered' /= delivered => delivered'.run = Len(effects)]_vars
    /\ [](Settled /\ image.loaded =>
             /\ delivered.run = Len(effects)
             /\ delivered.image = image /\ delivered.settings = settings)

-----------------------------------------------------------------------------
\* C12: postProcessMask completes without raising for every bridgeWidth >= 0
\* it can receive, the fractional settings.bridgeWidth * internalW / docW of
\* the mask effect included: no write of the bridge painting addresses a row
\* or column that is not a whole number inside the grid.
C12_NoRaise == pc \in {"repaired", "threw"} => ~repair.threw

-----------------------------------------------------------------------------
\* the cells within the radius of a segment of some stroke of the settings
\* the delivered mask was made from
ErasedCells ==
    UNION {StrokeCells(ScaledPath(delivered.settings.erasedPaths[i], docToMask), w, h) :
              i \in DOMAIN delivered.settings.erasedPaths}

-----------------------------------------------------------------------------
\* the cells the descents of the call have cleared
BridgeCells ==
    UNION {Painted(repair.descents[k].path[j],
                   CallSettings(settings, docToMask).bridgeWidth, w, h) :
              <<k, j>> \in {x \in (DOMAIN repair.descents) \X (1 .. w * h) :
                               x[2] <= Len(repair.descents[x[1]].path)}}

\* C14, as stated: with stencilMode on, every enclosed background region of
\* fewer than 20 cells is foreground in the output of postProcessMask and no
\* enclosed region of 20 or more cells is filled, also for bridgeWidth <= 0.
C14_NoiseFilledInOutput ==
    (pc \in {"repaired", "threw"} /\ settings.stencilMode) =>
        \A r \in Enclosed(maskIn, w, h) :
            IF Cardinality(r) < NOISE_PIXELS THEN r \subseteq mask ELSE r \cap mask = {}

\* C14, amended: every enclosed background region of fewer than 20 cells is
\* made foreground, and in the output each of its cells is foreground unless
\* a bridge painted later has cleared it; no cell of an enclosed region of 20
\* or more cells is made foreground; with bridgeWidth <= 0 no bridge is
\* painted and the small regions are foreground in the output.
C14_NoiseFilled ==
    (pc \in {"repaired", "threw"} /\ settings.stencilMode) =>
        /\ \A r \in Enclosed(maskIn, w, h) :
              IF Cardinality(r) < NOISE_PIXELS
              THEN (r \ mask) \subseteq BridgeCells
              ELSE r \cap mask = {}
        /\ settings.bridgeWidth <= 0 => BridgeCells = {}

\* a region of 19 cells has been filled next to one of 20 cells left open
C14_Witness ==
    /\ pc = "repaired"
    /\ \E r \in Enclosed(maskIn, w, h) : Cardinality(r) = NOISE_PIXELS - 1 /\ r \subseteq mask
    /\ \E r \in Enclosed(maskIn, w, h) : Cardinality(r) = NOISE_PIXELS /\ r \cap mask = {}

-----------------------------------------------------------------------------
\* the perimeter cells of the rectangle x0 .. x1 by y0 .. y1, clockwise from
\* its top-left cell: top row, right column, bottom row, left column
PerimeterClockwise(x0, x1, y0, y1) ==
    [i \in 1 .. (x1 - x0 + 1) |-> <<x0 + i - 1, y0>>]
    \o [i \in 1 .. (y1 - y0) |-> <<x1, y0 + i>>]
    \o [i \in 1 .. (x1 - x0) |-> <<x1 - i, y1>>]
    \o [i \in 1 .. (y1 - y0 - 1) |-> <<x0, y1 - i>>]

\* C15: for a mask whose only foreground is a filled axis-aligned rectangle
\* of at least 2x2 cells, extractAllContours returns exactly one contour,
\* which visits every perimeter cell exactly once, clockwise from the
\* top-left cell, and no interior cell.
C15_RectanglePerimeter ==
    pc = "traced" =>
        \A x0 \in 0 .. w - 1, x1 \in 0 .. w - 1, y0 \in 0 .. h - 1, y1 \in 0 .. h - 1 :
            (x0 < x1 /\ y0 < y1 /\ mask = Rect(x0, x1, y0, y1)) =>
                /\ Len(contours) = 1
                /\ [i \in 1 .. Len(contours[1].pts) |-> CellOfPoint(contours[1].pts[i])]
                       = PerimeterClockwise(x0, x1, y0, y1)

\* a rectangle with interior cells has been traced
C15_Witness ==
    /\ pc = "traced"
    /\ mask = Rect(1, 4, 0, 3)
    /\ Len(contours) = 1 /\ Len(contours[1].pts) = 12

-----------------------------------------------------------------------------
\* C16: buildBezierPath called with vectorSmoothing = 0 on a polygon that
\* keeps at least 3 points after simplification returns one M command, then
\* only L commands, then Z, and no C command.
C16_StraightSegments ==
    (pc = "path" /\ Len(simplifyPolyline(points, SHARP_EPSILON).pts) >= 3) =>
        /\ Len(path) >= 4
        /\ path[1].op = "M"
        /\ path[Len(path)].op = "Z"
        /\ \A i \in 2 .. Len(path) - 1 : path[i].op = "L"

-----------------------------------------------------------------------------
\* the length of the shortest path of 8-connected steps from c to a cell of
\* the set S, through any cells of the grid
Dist8(c, S) ==
    LET len(b) == Max(Abs(c[1] - b[1]), Abs(c[2] - b[2]))
    IN  len(CHOOSE b \in S : \A o \in S : len(b) <= len(o))

\* C17: the distance field postProcessMask computes gives every cell the
\* length of the shortest 8-connected path to the nearest mainland cell,
\* 0 on the mainland.
C17_DistanceField8 ==
    (pc \in {"repaired", "threw"} /\ repair.levels /= << >> /\ repair.bg /= {}) =>
        \A c \in Cells(w, h) : DistF(repair.levels, c) = Dist8(c, repair.bg)

-----------------------------------------------------------------------------
\* the least distF on the boundary of the island k of the call
MinBoundaryD(k) ==
    LET D(j) == DistF(repair.levels, repair.islands[k].boundary[j])
        dom == DOMAIN repair.islands[k].boundary
    IN  D(CHOOSE i \in dom : \A j \in dom : D(i) <= D(j))

\* C18: islands are bridged closest-first: whenever an island is bridged
\* before another one, the least distance-field value on its boundary is at
\* most the least value on the boundary of the other.
C18_ClosestFirst ==
    (pc \in {"repaired", "threw"} /\ repair.bg /= {}) =>
        \A i \in DOMAIN repair.descents : \A j \in DOMAIN repair.descents :
            i < j => MinBoundaryD(repair.descents[i].island)
                        <= MinBoundaryD(repair.descents[j].island)

-----------------------------------------------------------------------------
\* the descents started for the island k, in the order they were started
DescentsOf(k) == SelectSeq(repair.descents, LAMBDA d : d.island = k)

\* the descent d of the island k starts at a boundary point of least distF
\* among the boundary points lo .. hi (counted from 1)
StartsAtArcMinimum(d, k, lo, hi) ==
    LET boundary == repair.islands[k].boundary
    IN  /\ \E j \in lo .. hi : boundary[j] = d.start
        /\ \A j \in lo .. hi :
              DistF(repair.levels, d.start) <= DistF(repair.levels, boundary[j])

-----------------------------------------------------------------------------
\* C20: when the mainland is not empty, every bridge descent moves at each
\* step to a neighbour of strictly smaller distance-field value and ends on a
\* mainland cell (distance 0) after at most D(start) steps, and every cell
\* it visited at a distance above 0 is background afterwards.
C20_DescentReachesMainland ==
    (pc \in {"repaired", "threw"} /\ repair.bg /= {}) =>
        \A k \in DOMAIN repair.descents :
            LET d == repair.descents[k]
                cells == Append(d.path, d.end)
                D(c) == DistF(repair.levels, c)
            IN  /\ d.path /= << >> /\ d.path[1] = d.start
                /\ \A i \in 1 .. Len(cells) - 1 :
                      /\ Abs(cells[i + 1][1] - cells[i][1]) <= 1
                      /\ Abs(cells[i + 1][2] - cells[i][2]) <= 1
                      /\ D(cells[i + 1]) < D(cells[i])
                /\ D(d.end) = 0 /\ d.end \in repair.bg
                /\ Len(d.path) <= D(d.start)
                /\ \A i \in 1 .. Len(d.path) : d.path[i] \notin mask

-----------------------------------------------------------------------------
\* C21: the boundary trace of every component ends, and the contour it
\* returns has at most 4 * w * h points, also when the walk never comes back
\* to the seed cell and the safety counter ends it.
C21_TraceBounded ==
    pc = "traced" =>
        /\ \A k \in 1 .. Len(contours) : Len(contours[k].pts) <= 4 * w * h
        /\ LET traces == TraceAll(mask, w, h)
           IN  \A k \in 1 .. Len(traces) :
                   /\ traces[k].exit \in {"closed", "isolated", "safety"}
                   /\ Len(traces[k].cells) <= 4 * w * h

\* a walk that never came back to its seed was ended by the safety counter
C21_Witness ==
    /\ pc = "traced"
    /\ \E k \in 1 .. Len(contours) : Len(contours[k].pts) = 4 * w * h
    /\ \E t \in Range(TraceAll(mask, w, h)) : t.exit = "safety"

-----------------------------------------------------------------------------
(* The contour and the boundary of a component *)

\* the cells of comp with a 4-neighbour outside comp or off the grid
BoundaryCells(comp) == {c \in comp : ~(Neigh4(c) \subseteq comp)}

\* no cell outside comp is cut off from the border of the grid
HoleFree(comp, ww, hh) == BgConnected(comp, ww, hh) = Cells(ww, hh) \ comp

\* the components of three or more cells without a hole whose contour misses
\* one of their boundary cells
MissedBy(m, ww, hh) ==
    LET comps == LabelComponents(m, ww)
        traces == TraceAll(m, ww, hh)
    IN  {k \in 1 .. Len(comps) :
            /\ Cardinality(comps[k].cells) >= 3
            /\ HoleFree(comps[k].cells, ww, hh)
            /\ ~(BoundaryCells(comps[k].cells) \subseteq Range(traces[k].cells))}

\* C22: the contour of every hole-free 4-connected component of three or more
\* cells contains every boundary cell of the component
C22_BoundaryCovered == pc = "traced" => MissedBy(mask, w, h) = {}

\* C23: simplifyPoints returns at most maxPoints points
C23_AtMostMaxPoints == pc = "capped" => Len(simplified.pts) <= maxPointsArg

-----------------------------------------------------------------------------
\* the clamp of the variant of postProcessMask that takes bridgeHalfWidth
BRIDGE_HALF_WIDTH_MAX == 5

\* the cells the descents stood on
DescentCells == UNION {Range(repair.descents[k].path) : k \in DOMAIN repair.descents}

\* C24: whatever bridgeWidth is, a turn of a descent clears no cell further
\* than 5 cells from the cell it stands on
C24_HalfWidthClamped ==
    pc = "repaired" =>
        \A c \in maskIn \ mask :
            \E p \in DescentCells : /\ Abs(c[1] - p[1]) <= BRIDGE_HALF_WIDTH_MAX
                                    /\ Abs(c[2] - p[2]) <= BRIDGE_HALF_WIDTH_MAX

-----------------------------------------------------------------------------
\* C25: whenever processing is true it is false again later, the changes of
\* the image and the settings being finitely many
C25_ProcessingEnds == processing ~> ~processing

-----------------------------------------------------------------------------
\* C26: with stencil mode on and smooth at least 1, every background cell of
\* the mask the mask stage hands over is 4-connected to a border cell
C26_NoEnclosedRegion ==
    (/\ delivered.run > 0
     /\ delivered.settings.stencilMode
     /\ delivered.settings.smooth >= 1) => Enclosed(delivered.mask, w, h) = {}

-----------------------------------------------------------------------------
\* the iterative simplifyPolyline after n turns of its while-loop
RdpAfter(pl, eps, n) ==
    RdpLoop(pl.pts, eps, ScaleA(pl), ScaleB(pl), ScaleK(pl),
            [stack |-> << <<1, Len(pl.pts)>> >>, keep |-> {1, Len(pl.pts)}], n)

\* C27: the recursive and the iterative simplifyPolyline return the same
\* point list, and the loop of the iterative one has ended after one turn
\* for the whole list and two for every kept point between the ends
C27_SameResult ==
    pc = "both" =>
        /\ simplifiedRecursive = simplified
        /\ Len(points.pts) >= 3 =>
              RdpAfter(points, epsilon, 2 * Len(simplified.pts) - 3).stack = << >>

\* a list that is split and loses a point
C27_Witness ==
    /\ pc = "both"
    /\ simplifiedRecursive = simplified
    /\ Len(simplified.pts) >= 3
    /\ Len(simplified.pts) < Len(points.pts)

-----------------------------------------------------------------------------
\* C28: the grid postProcessMask leaves is the same in whatever order the
\* islands are bridged
C28_OrderIndependent == pc = "reordered" => reordered.mask = mask

\* two islands bridged last one first, both descents clearing ink
C28_Witness ==
    /\ pc = "reordered"
    /\ reordered.order = <<2, 1>>
    /\ reordered.mask = mask
    /\ ~repair.threw
    /\ \A k \in 1 .. 2 :
          \E d \in Range(repair.descents) : d.island = k /\ Range(d.path) \cap maskIn /= {}

-----------------------------------------------------------------------------
\* the enclosed regions of the grid handed to postProcessMask of fewer than
\* NOISE_PIXELS cells, and the others
SmallRegions == {r \in Enclosed(maskIn, w, h) : Cardinality(r) < NOISE_PIXELS}

LargeRegions == Enclosed(maskIn, w, h) \ SmallRegions

\* C29: when no background cell is joined to the border, postProcessMask
\* with stencil mode carves no bridge: it only fills the enclosed regions of
\* fewer than 20 cells, and every other enclosed region stays enclosed
C29_EmptyMainland ==
    (pc \in {"repaired", "threw"} /\ settings.stencilMode /\ repair.bg = {}) =>
        /\ ~repair.threw
        /\ mask = maskIn \cup UNION SmallRegions
        /\ LargeRegions \subseteq Enclosed(mask, w, h)
        /\ \A k \in DOMAIN repair.descents : repair.descents[k].path = << >>

\* an empty mainland, a region filled, a region kept and a bridge asked for
C29_Witness ==
    /\ pc = "repaired" /\ settings.stencilMode /\ repair.bg = {}
    /\ settings.bridgeWidth > 0
    /\ SmallRegions /= {} /\ LargeRegions /= {}
    /\ repair.descents /= << >>
    /\ mask = maskIn \cup UNION SmallRegions

-----------------------------------------------------------------------------
\* C30: once every deferred onErasedPathsUpdate call has run, the list last
\* handed to the parent contains every completed stroke
C30_NoStrokeLost ==
    (pc = "erase" /\ eraseTimers = << >> /\ activeErasePath = << >>) =>
        \A k \in 1 .. Len(completed) : \E j \in 1 .. Len(handed) : handed[j] = completed[k]

====
